---- MODULE Spec2Model ----
(***************************************************************************)
(* Model of the route-planning core of transitsync-routing:                *)
(*   src/transitsync_routing/route_planner.py  (RoutePlanner)              *)
(*   src/transitsync_routing/api_client.py     (offline itinerary mock)    *)
(*   src/transitsync_routing/calendar_event.py (CalendarEvent)             *)
(*   src/transitsync_routing/event.py          (Event)                     *)
(*                                                                         *)
(* Conventions.                                                            *)
(*  - Python None is the empty tuple <<>>, a present value x is <<x>>.     *)
(*  - Python str values are TLA+ strings; lower(), strip(), `in` and       *)
(*    startswith() are computed character by character.                    *)
(*  - Instants and durations are integers in seconds.  A float number of   *)
(*    minutes (estimated_travel_time_minutes, buffer_minutes) is carried   *)
(*    in sixtieths of a minute, so "10 minutes" is 600.                    *)
(*  - Coordinates lie on one meridian.  There haversine_distance reduces   *)
(*    to R * |delta phi|, and a latitude is an integer number of steps of  *)
(*    500 m of arc (0 is the equator, Wellington is near -9180).           *)
(*    Distances are integers in metres.                                    *)
(*  - ISO-8601 text is [ok, t]: well-formed text of instant t, or          *)
(*    malformed text (ok = FALSE) that datetime.fromisoformat rejects.     *)
(***************************************************************************)
EXTENDS Integers, Sequences, FiniteSets, TLC

None == <<>>
Some(x) == <<x>>

(***************************************************************************)
(* Python string operations                                                *)
(***************************************************************************)
UpperAlphabet == "ABCDEFGHIJKLMNOPQRSTUVWXYZ"
LowerAlphabet == "abcdefghijklmnopqrstuvwxyz"

LowerChar(c) ==
    IF \E i \in 1..Len(UpperAlphabet) : SubSeq(UpperAlphabet, i, i) = c
    THEN LET i == CHOOSE j \in 1..Len(UpperAlphabet) : SubSeq(UpperAlphabet, j, j) = c
         IN SubSeq(LowerAlphabet, i, i)
    ELSE c

RECURSIVE Lower(_)
Lower(s) ==
    IF s = "" THEN ""
    ELSE LowerChar(SubSeq(s, 1, 1)) \o Lower(SubSeq(s, 2, Len(s)))

RECURSIVE LStrip(_)
LStrip(s) ==
    IF s # "" /\ SubSeq(s, 1, 1) = " " THEN LStrip(SubSeq(s, 2, Len(s))) ELSE s

RECURSIVE RStrip(_)
RStrip(s) ==
    IF s # "" /\ SubSeq(s, Len(s), Len(s)) = " " THEN RStrip(SubSeq(s, 1, Len(s) - 1)) ELSE s

Strip(s) == RStrip(LStrip(s))

\* Python's `k in s` for strings.
Contains(s, k) ==
    \E i \in 1..(Len(s) - Len(k) + 1) : SubSeq(s, i, i + Len(k) - 1) = k

StartsWith(s, k) == Len(k) <= Len(s) /\ SubSeq(s, 1, Len(k)) = k

\* Truthiness of an optional string: None and "" are falsy.
Truthy(optStr) == optStr # None /\ optStr[1] # ""

(***************************************************************************)
(* ISO-8601 text                                                           *)
(***************************************************************************)
isoformat(t) == [ok |-> TRUE, t |-> t]
MalformedText == [ok |-> FALSE, t |-> 0]

(***************************************************************************)
(* Geometry                                                                *)
(***************************************************************************)
\* Metres of arc per latitude step: R * delta phi with R = 6371 km.
MetresPerStep == 5 * 100
\* The meridian every modelled point lies on (a non-zero longitude).
MeridianLon == 174 * 1000
\* Latitude step of Wellington Station (-41.278861 degrees).
StationLat == 0 - 9180

Abs(x) == IF x < 0 THEN 0 - x ELSE x

\* Great-circle distance in metres of two points of the meridian.
haversine_distance(lat1, lon1, lat2, lon2) == MetresPerStep * Abs(lat2 - lat1)

Stop(stop_id, name, lat, lon) ==
    [stop_id |-> stop_id, name |-> name, lat |-> lat, lon |-> lon]

\* min(seq, key = ...) of Python: the first element with the least key.
RECURSIVE MinFirstFrom(_, _, _, _)
MinFirstFrom(seq, lat, lon, i) ==
    IF i = Len(seq) THEN seq[i]
    ELSE LET rest == MinFirstFrom(seq, lat, lon, i + 1)
         IN IF haversine_distance(lat, lon, seq[i].lat, seq[i].lon)
                 <= haversine_distance(lat, lon, rest.lat, rest.lon)
            THEN seq[i] ELSE rest

NearestOf(seq, lat, lon) == MinFirstFrom(seq, lat, lon, 1)

(***************************************************************************)
(* RoutePlanner.geocode_address (route_planner.py)                         *)
(***************************************************************************)
\* The abbreviations table, in dict order: <<key, full address>>.
wellington_locations == <<
    <<"CO246", "Cotton Building, Kelburn Campus, Victoria University, Wellington, New Zealand">>,
    <<"zoo", "Wellington Zoo, 200 Daniell Street, Newtown, Wellington 6021, New Zealand">>,
    <<"Wellington Zoo", "Wellington Zoo, 200 Daniell Street, Newtown, Wellington 6021, New Zealand">>,
    <<"VUW", "Victoria University of Wellington, Kelburn Parade, Wellington, New Zealand">>,
    <<"Kelburn Campus", "Victoria University of Wellington, Kelburn Parade, Wellington, New Zealand">> >>

\* The for/break loop: the first key found in the stripped address replaces
\* the address; with no match the address stays as given (unstripped).
KnownLocation(address) ==
    LET normalized_address == Strip(address)
        hits == {i \in 1..Len(wellington_locations) :
                    Contains(Lower(normalized_address), Lower(wellington_locations[i][1]))}
    IN IF hits = {} THEN address
       ELSE wellington_locations[CHOOSE i \in hits : \A j \in hits : i <= j][2]

\* The query text sent to Nominatim.
GeocodeQuery(address) ==
    LET a == KnownLocation(address)
    IN IF /\ ~Contains(Lower(a), "wellington")
          /\ ~Contains(Lower(a), "new zealand")
          /\ ~\E loc \in {"street", "road", "avenue", "drive"} : Contains(Lower(a), loc)
       THEN a \o ", Wellington, New Zealand"
       ELSE a

\* Fallback coordinates (-41.3186, 174.7824) and (-41.2901, 174.7682).
ZooFallback == [lat |-> 0 - 9189, lon |-> MeridianLon]
VuwFallback == [lat |-> 0 - 9182, lon |-> MeridianLon]

\* A Nominatim answer: requests.get raised, or a status with a JSON list
\* whose entries hold lat/lon text (ok = FALSE: text float() rejects).
GeoException == [kind |-> "exception", status |-> 0, data |-> <<>>]
GeoHttp(status, data) == [kind |-> "http", status |-> status, data |-> data]
GeoEntry(lat) == [ok |-> TRUE, lat |-> lat, lon |-> MeridianLon]

\* What geocode_address falls back to when Nominatim finds nothing for the
\* query text: the Zoo, the university, or nothing.
FallbackFor(address) ==
    LET query == GeocodeQuery(address)
    IN IF Contains(Lower(query), "wellington zoo") THEN Some(ZooFallback)
       ELSE IF \/ Contains(Lower(query), "victoria university")
               \/ Contains(Lower(query), "vuw")
               \/ Contains(Lower(query), "kelburn campus")
            THEN Some(VuwFallback)
       ELSE None

\* Every address text a modelled event can carry when it is geocoded.
AddressUniverse ==
    {"", "Cafe", "zoo", "Library", " ", "Wellington Zoo", "Home", "My House", " cafe ",
     "12 Home Street, Wellington", "Online meeting",
     "Cotton Building, Kelburn Campus, Victoria University, Wellington"}

\* FallbackFor, tabulated once over the addresses of the model.
FallbackTable == [address \in AddressUniverse |-> FallbackFor(address)]

\* geocode_address(address) given the answer of its one HTTP request.
\* Returns None or Some([lat, lon]).
geocode_address(address, resp) ==
    IF ~Truthy(address) THEN None
    ELSE IF resp.kind = "exception" THEN None
    ELSE IF resp.status # 200 THEN None
    ELSE IF resp.data = <<>> THEN FallbackTable[address[1]]
    ELSE IF ~resp.data[1].ok THEN None
    ELSE Some([lat |-> resp.data[1].lat, lon |-> resp.data[1].lon])

(***************************************************************************)
(* RoutePlanner.find_nearest_stop, get_hardcoded_stop_near,                *)
(* get_stop_predictions (route_planner.py)                                 *)
(***************************************************************************)
\* The seven fallback stops in list order, latitudes in steps.
wellington_stops == <<
    Stop("4130", "Kelburn Parade at Gate 6", 0 - 9182, MeridianLon),
    Stop("4129", "Kelburn Parade opposite Gate 6", 0 - 9182, MeridianLon),
    Stop("5515", "Wellington Station", StationLat, MeridianLon),
    Stop("5000", "Lambton Quay at Willis Street", 0 - 9182, MeridianLon),
    Stop("6415", "Wellington Zoo", 0 - 9189, MeridianLon),
    Stop("6416", "Wellington Zoo", 0 - 9189, MeridianLon),
    Stop("5500", "Courtenay Place", 0 - 9183, MeridianLon) >>

get_hardcoded_stop_near(lat, lon) == Some(NearestOf(wellington_stops, lat, lon))

\* A Metlink stops answer: requests.get or response.json() raised, or a
\* status with a body that is a list of entries (shape "list"), a dict with
\* a 'stops' list (shape "dict"), or anything else (shape "other").  An
\* entry with ok = FALSE lacks a key or holds text float() rejects.
StopsException == [kind |-> "exception", status |-> 0, shape |-> "other", stops |-> <<>>]
StopsHttp(status, shape, stops) ==
    [kind |-> "http", status |-> status, shape |-> shape, stops |-> stops]
StopEntry(ok, stop_id, name, lat) ==
    [ok |-> ok, stop_id |-> stop_id, stop_name |-> name, stop_lat |-> lat, stop_lon |-> MeridianLon]

RECURSIVE ParseStops(_)
ParseStops(stops_data) ==
    IF stops_data = <<>> THEN <<>>
    ELSE LET e == Head(stops_data)
         IN (IF e.ok THEN <<Stop(e.stop_id, e.stop_name, e.stop_lat, e.stop_lon)>> ELSE <<>>)
            \o ParseStops(Tail(stops_data))

\* find_nearest_stop(lat, lon) given the answer of its one HTTP request,
\* once config.METLINK_API_KEY has been read.  Returns None or Some(stop).
find_nearest_stop(lat, lon, resp) ==
    IF resp.kind = "exception" THEN get_hardcoded_stop_near(lat, lon)
    ELSE IF resp.status # 200 THEN None
    ELSE IF resp.shape = "other" THEN get_hardcoded_stop_near(lat, lon)
    ELSE IF resp.stops = <<>> THEN get_hardcoded_stop_near(lat, lon)
    ELSE LET stops == ParseStops(resp.stops)
         IN IF stops = <<>> THEN get_hardcoded_stop_near(lat, lon)
            ELSE Some(NearestOf(stops, lat, lon))

\* A Metlink predictions answer.  shape "departures": a dict whose
\* 'departures' is the list items; "dict": a dict without 'departures'
\* (predictions is then the dict itself); "list": a JSON list, on which
\* data.get raises.  An item holds its expected_departure_time: None when
\* the key is missing, or ISO text.
PredException == [kind |-> "exception", status |-> 0, shape |-> "dict", items |-> <<>>]
PredHttp(status, shape, items) ==
    [kind |-> "http", status |-> status, shape |-> shape, items |-> items]

\* get_stop_predictions(stop_id): None, or Some([is_list, items]).
get_stop_predictions(resp) ==
    IF resp.kind = "exception" THEN None
    ELSE IF resp.status # 200 THEN None
    ELSE IF resp.shape = "list" THEN None
    ELSE IF resp.shape = "departures" THEN Some([is_list |-> TRUE, items |-> resp.items])
    ELSE Some([is_list |-> FALSE, items |-> <<>>])

(***************************************************************************)
(* RoutePlanner.plan_route_between_events (route_planner.py)               *)
(***************************************************************************)
\* buffer_minutes: default, "#fixed" and "#flexible".
DefaultBufferMinutes == 15
FixedBufferMinutes == 20
FlexibleBufferMinutes == 10
\* "within walking distance (less than 1km)", 5 km/h on foot, 30 km/h by bus.
WalkingDistanceKm == 1
WalkingSpeedKmh == 5
BusSpeedKmh == 30

\* What a call ends with: a returned value (None or Some(route)) or an
\* exception leaving the call; Pending(what) is a call waiting for the
\* answers of its next external requests.
Returned(value) == [status |-> "returned", value |-> value, exc |-> ""]
Raised(exc) == [status |-> "raised", value |-> None, exc |-> exc]
Pending(what) == [status |-> "pending", value |-> None, exc |-> what]

\* Mutant: only the first event's location is checked.
MissingLocation_OnlyEvent1(event1, event2) == ~Truthy(event1.location)

\* The two guards at the head of the function.
MissingLocation(event1, event2) == ~Truthy(event1.location) \/ ~Truthy(event2.location)

\* The tags of the destination event: description first, summary overrides.
BufferFor(summary, description) ==
    LET fromDescription ==
            IF description # "" /\ Contains(Lower(description), "#fixed")
            THEN FixedBufferMinutes
            ELSE IF description # "" /\ Contains(Lower(description), "#flexible")
            THEN FlexibleBufferMinutes
            ELSE DefaultBufferMinutes
    IN IF Contains(Lower(summary), "#fixed") THEN FixedBufferMinutes
       ELSE IF Contains(Lower(summary), "#flexible") THEN FlexibleBufferMinutes
       ELSE fromDescription

\* Every summary and description text of a modelled event.
SummaryUniverse ==
    {"Lecture", "COMP102 Lab", "Meeting", "Exam #fixed", "Coffee #FLEXIBLE", "Comp lab", "Home",
     "Breakfast", "Transit: Cafe to Library", "Re: Transit: timetable", "Standup"}
DescriptionUniverse == {"", "Bring ID #Fixed", "#flexible", "#fixed"}

\* BufferFor, tabulated once over the texts of the model.
BufferTable ==
    [summary \in SummaryUniverse |->
        [description \in DescriptionUniverse |-> BufferFor(summary, description)]]

buffer_minutes(event2) == BufferTable[event2.summary][event2.description]

\* Whether the summary lets the location be inferred ("lab" or "comp").
NamesALab(summary) == Contains(Lower(summary), "lab") \/ Contains(Lower(summary), "comp")
LabTable == [summary \in SummaryUniverse |-> NamesALab(summary)]

\* "Try to infer location from event summary if missing".
InferLocation(event) ==
    IF event.location = Some("") /\ LabTable[event.summary]
    THEN [event EXCEPT !.location =
              Some("Cotton Building, Kelburn Campus, Victoria University, Wellington")]
    ELSE event

\* (direct_distance / 5) * 60 and (distance / 30) * 60, in sixtieths of a minute.
WalkingTimeMinutes(distance) == (distance * 60 * 60) \div (WalkingSpeedKmh * 1000)
BusTimeMinutes(distance) == (distance * 60 * 60) \div (BusSpeedKmh * 1000)

IsWalkingDistance(direct_distance) == direct_distance < WalkingDistanceKm * 1000

\* The timing of the walking branch: <<predicted_departure, estimated_arrival_time>>.
WalkingTiming(event1, event2, walking_time, now1) ==
    IF event2.start_time # None
    THEN LET arrival_time == event2.start_time[1]
             buffer_time == buffer_minutes(event2) * 60
         IN <<arrival_time - walking_time - buffer_time, arrival_time - buffer_time>>
    ELSE IF event1.end_time # None
    THEN <<event1.end_time[1], event1.end_time[1] + walking_time>>
    ELSE <<now1, now1 + walking_time>>

\* Whether the first departure prediction is used: predictions is a
\* non-empty list whose first item's expected_departure_time parses.
PredictionUsable(predictions) ==
    /\ predictions # None
    /\ predictions[1].is_list
    /\ predictions[1].items # <<>>
    /\ predictions[1].items[1].expected_departure_time # None
    /\ predictions[1].items[1].expected_departure_time[1].ok

\* Mutant: the route arrives at the destination's start, with no buffer.
TransitTiming_NoBuffer(event1, event2, travel_time, predictions, now1, now2) ==
    IF event2.start_time # None
    THEN <<event2.start_time[1] - travel_time, event2.start_time[1]>>
    ELSE IF event1.end_time # None
    THEN <<event1.end_time[1], event1.end_time[1] + travel_time>>
    ELSE <<now1, now2 + travel_time>>

\* Mutant: the origin's end is consulted before the destination's start.
TransitTiming_EndFirst(event1, event2, travel_time, predictions, now1, now2) ==
    IF event1.end_time # None
    THEN <<event1.end_time[1], event1.end_time[1] + travel_time>>
    ELSE IF event2.start_time # None
    THEN LET arrival_time == event2.start_time[1]
             buffer_time == buffer_minutes(event2) * 60
         IN <<arrival_time - travel_time - buffer_time, arrival_time - buffer_time>>
    ELSE <<now1, now2 + travel_time>>

\* The timing of the transit branch; now1 and now2 are its two clock reads.
TransitTiming(event1, event2, travel_time, predictions, now1, now2) ==
    IF event2.start_time # None
    THEN LET arrival_time == event2.start_time[1]
             buffer_time == buffer_minutes(event2) * 60
         IN <<arrival_time - travel_time - buffer_time, arrival_time - buffer_time>>
    ELSE IF event1.end_time # None
    THEN <<event1.end_time[1], event1.end_time[1] + travel_time>>
    ELSE IF PredictionUsable(predictions)
    THEN LET dep_time == predictions[1].items[1].expected_departure_time[1].t
         IN <<dep_time, dep_time + travel_time>>
    ELSE <<now1, now2 + travel_time>>

StopDict(stop) ==
    [stop_id |-> stop.stop_id, name |-> stop.name, lat |-> stop.lat, lon |-> stop.lon]

\* route_info of the walking branch and of the transit branch.
WalkingRoute(event1, event2, geo1, geo2, now1) ==
    LET direct_distance == haversine_distance(geo1.lat, geo1.lon, geo2.lat, geo2.lon)
        walking_time_minutes == WalkingTimeMinutes(direct_distance)
        timing == WalkingTiming(event1, event2, walking_time_minutes, now1)
    IN [from_event |-> event1.summary, to_event |-> event2.summary,
        from_location |-> event1.location[1], to_location |-> event2.location[1],
        from_geocoded |-> geo1, to_geocoded |-> geo2,
        departure_stop |-> None, arrival_stop |-> None,
        predicted_departure |-> Some(isoformat(timing[1])),
        estimated_travel_time_minutes |-> walking_time_minutes,
        estimated_arrival_time |-> Some(isoformat(timing[2])),
        mode |-> Some("walking")]

TransitRoute(event1, event2, geo1, geo2, departure_stop, arrival_stop, predictions, now1, now2) ==
    LET distance == haversine_distance(departure_stop.lat, departure_stop.lon,
                                       arrival_stop.lat, arrival_stop.lon)
        travel_time_minutes == BusTimeMinutes(distance)
        timing == TransitTiming(event1, event2, travel_time_minutes, predictions, now1, now2)
    IN [from_event |-> event1.summary, to_event |-> event2.summary,
        from_location |-> event1.location[1], to_location |-> event2.location[1],
        from_geocoded |-> geo1, to_geocoded |-> geo2,
        departure_stop |-> Some(StopDict(departure_stop)),
        arrival_stop |-> Some(StopDict(arrival_stop)),
        predicted_departure |-> Some(isoformat(timing[1])),
        estimated_travel_time_minutes |-> travel_time_minutes,
        estimated_arrival_time |-> Some(isoformat(timing[2])),
        mode |-> None]

\* The answers of the outside world to one call, in the order the call asks
\* for them; None where the call has not asked yet.
\*   geo:    <<answer to geocode(event1), answer to geocode(event2)>>
\*   stops:  <<answer to the stop lookup near event1, near event2>>
\*   finish: [pred, now1, now2]: the predictions answer and the clock reads
\* config_ok: whether the imported config module defines METLINK_API_KEY and
\* HOME_ADDRESS (the package's own config.py defines neither).
NoAnswers(config_ok) ==
    [config_ok |-> config_ok, geo |-> None, stops |-> None, finish |-> None]

\* The part of the function after both stops are found.
RouteFromStops(event1, event2, geo1, geo2, departure_stop, arrival_stop, env) ==
    LET direct_distance == haversine_distance(geo1.lat, geo1.lon, geo2.lat, geo2.lon)
    IN IF env.finish = None THEN Pending("finish")
       ELSE IF IsWalkingDistance(direct_distance)
       THEN Returned(Some(WalkingRoute(event1, event2, geo1, geo2, env.finish[1].now1)))
       ELSE Returned(Some(TransitRoute(event1, event2, geo1, geo2,
                                       departure_stop, arrival_stop,
                                       get_stop_predictions(env.finish[1].pred),
                                       env.finish[1].now1, env.finish[1].now2)))

\* The part of the function after both addresses are geocoded.
RouteFromCoordinates(event1, event2, geo1, geo2, env) ==
    IF ~env.config_ok THEN Raised("AttributeError")
    ELSE IF env.stops = None THEN Pending("stops")
    ELSE LET departure_stop == find_nearest_stop(geo1.lat, geo1.lon, env.stops[1][1])
             arrival_stop == find_nearest_stop(geo2.lat, geo2.lon, env.stops[1][2])
         IN IF departure_stop = None THEN Returned(None)
            ELSE IF arrival_stop = None THEN Returned(None)
            ELSE RouteFromStops(event1, event2, geo1, geo2,
                                departure_stop[1], arrival_stop[1], env)

\* Mutant: only the first geocoding result is checked.
GeocodeFailed_OnlyFirst(geo1, geo2) == geo1 = None

\* "Handle geocoding failures gracefully".
GeocodeFailed(geo1, geo2) == geo1 = None \/ geo2 = None

plan_route_between_events(event1, event2, env) ==
    IF MissingLocation(event1, event2) THEN Returned(None)
    ELSE LET e1 == InferLocation(event1)
             e2 == InferLocation(event2)
         IN IF env.geo = None THEN Pending("geocode")
            ELSE LET geo1 == geocode_address(e1.location, env.geo[1][1])
                     geo2 == geocode_address(e2.location, env.geo[1][2])
                 IN IF GeocodeFailed(geo1, geo2) THEN Returned(None)
                    \* lat1, lon1 = geo1 and lat2, lon2 = geo2 unpack a tuple.
                    ELSE IF geo1 = None \/ geo2 = None THEN Raised("TypeError")
                    ELSE RouteFromCoordinates(e1, e2, geo1[1], geo2[1], env)

(***************************************************************************)
(* CalendarEvent, RoutePlanner.plan_routes_for_events and process_events   *)
(***************************************************************************)
\* An event object; tz_aware says whether its datetimes carry a UTC offset
\* (Event._parse_datetime gives such a datetime for "...+13:00" or "...Z").
Event(summary, location, description, start_time, end_time) ==
    [summary |-> summary, location |-> location, description |-> description,
     start_time |-> start_time, end_time |-> end_time, tz_aware |-> FALSE]

WithOffset(event) == [event EXCEPT !.tz_aware = TRUE]

\* CalendarEvent(*positional): __init__ requires summary and location.
CalendarEvent(positional) ==
    IF Len(positional) < 2 THEN Raised("TypeError")
    ELSE Returned(Some(Event(positional[1], positional[2],
                             IF Len(positional) >= 5 THEN positional[5] ELSE "",
                             IF Len(positional) >= 3 THEN positional[3] ELSE None,
                             IF Len(positional) >= 4 THEN positional[4] ELSE None)))

\* config.HOME_ADDRESS, where the imported config module defines it.
HOME_ADDRESS == "12 Home Street, Wellington"

Hour == 60 * 60
\* datetime.datetime.min: earlier than every instant of an event.
datetime_min == 0 - Hour

\* key=lambda e: e.start_time or datetime.datetime.min
SortKey(event) == IF event.start_time = None THEN datetime_min ELSE event.start_time[1]

\* sorted(): a stable sort, here by insertion from the left.
RECURSIVE InsertByKey(_, _)
InsertByKey(prefix, event) ==
    IF prefix = <<>> THEN <<event>>
    ELSE LET n == Len(prefix)
         IN IF SortKey(prefix[n]) <= SortKey(event) THEN Append(prefix, event)
            ELSE Append(InsertByKey(SubSeq(prefix, 1, n - 1), event), prefix[n])

RECURSIVE sorted(_)
sorted(seq) ==
    IF seq = <<>> THEN <<>>
    ELSE InsertByKey(sorted(SubSeq(seq, 1, Len(seq) - 1)), seq[Len(seq)])

\* location.strip().lower(), tabulated once over the addresses of the model.
Normalized(address) == Lower(Strip(address))
NormalizedTable == [address \in AddressUniverse |-> Normalized(address)]

\* Whether the sort key of the event is an offset-aware datetime;
\* datetime.datetime.min is naive.
AwareKey(event) == event.start_time # None /\ event.tz_aware

\* Ordering a naive and an aware datetime raises TypeError, and sorting a
\* list that holds both kinds of key has to order such a pair.
SortRaises(seq) == \E i, j \in 1..Len(seq) : AwareKey(seq[i]) /\ ~AwareKey(seq[j])

\* "not event.location or event.location.strip() == ''"
BlankLocation(location) == ~Truthy(location) \/ NormalizedTable[location[1]] = ""

\* Mutant: only a None or empty location is back-filled, not a blank one.
BackFill_OnlyMissing(events) ==
    [i \in 1..Len(events) |->
        IF ~Truthy(events[i].location)
        THEN [events[i] EXCEPT !.location = Some(HOME_ADDRESS)]
        ELSE events[i]]

\* "Set HOME_ADDRESS for any events without a location".
BackFill(events) ==
    [i \in 1..Len(events) |->
        IF BlankLocation(events[i].location)
        THEN [events[i] EXCEPT !.location = Some(HOME_ADDRESS)]
        ELSE events[i]]

\* "Filter out events created by the bot".
BotCreated(summary) ==
    \/ StartsWith(summary, "Transit:")
    \/ StartsWith(summary, "Walking:")
    \/ StartsWith(summary, "[TransitBot]")

BotCreatedTable == [summary \in SummaryUniverse |-> BotCreated(summary)]

\* Mutant: the filter only drops events without a location.
KeptByFilter_LocationOnly(event) == ~BlankLocation(event.location)

KeptByFilter(event) == ~BotCreatedTable[event.summary] /\ ~BlankLocation(event.location)

filtered_events(events) == SelectSeq(events, KeptByFilter)

\* Mutant: locations are compared as written.
SameLocation_Exact(a, b) == a.location = b.location

SameLocation(a, b) == NormalizedTable[a.location[1]] = NormalizedTable[b.location[1]]

\* "Get unique events (different locations)".
RECURSIVE UniqueFrom(_, _, _)
UniqueFrom(sorted_events, i, unique_events) ==
    IF i > Len(sorted_events) THEN unique_events
    ELSE IF SameLocation(sorted_events[i], unique_events[Len(unique_events)])
    THEN UniqueFrom(sorted_events, i + 1, unique_events)
    ELSE UniqueFrom(sorted_events, i + 1, Append(unique_events, sorted_events[i]))

Unique(sorted_events) == UniqueFrom(sorted_events, 2, <<sorted_events[1]>>)

\* any(loc.lower() in location.lower() for loc in [...])
NamesAHome(address) ==
    \E loc \in {"home", "house", "apartment", "flat"} : Contains(Lower(address), Lower(loc))
NamesAHomeTable == [address \in AddressUniverse |-> NamesAHome(address)]

\* "Check if the first event's location is not HOME_ADDRESS".
HomeAnchorNeeded(first_event) ==
    /\ NormalizedTable[first_event.location[1]] # NormalizedTable[HOME_ADDRESS]
    /\ ~NamesAHomeTable[first_event.location[1]]

\* The dict the dummy home event is built from.
HomeEventDict(first_event, now) ==
    [summary |-> "Home", location |-> HOME_ADDRESS,
     start |-> isoformat(IF first_event.start_time # None
                         THEN first_event.start_time[1] - Hour ELSE now)]

\* range(len(events) - 1): the pairs (i, i+1) in ascending order.
ConsecutivePairs(seq) == [i \in 1..(Len(seq) - 1) |-> <<seq[i], seq[i + 1]>>]

\* The dict a route is converted from.
EventDict(route) ==
    [summary |-> IF route.mode = Some("walking")
                 THEN "Walking: " \o route.from_location \o " to " \o route.to_location
                 ELSE "Transit: " \o route.departure_stop[1].name \o " to "
                                  \o route.arrival_stop[1].name,
     start |-> route.predicted_departure,
     end |-> route.estimated_arrival_time]

\* "Convert route information into CalendarEvent objects".
RECURSIVE ConvertRoutes(_, _)
ConvertRoutes(routes, calendar_events) ==
    IF routes = <<>> THEN Returned(calendar_events)
    ELSE LET calendar_event == CalendarEvent(<<EventDict(Head(routes))>>)
         IN IF calendar_event.status = "raised" THEN calendar_event
            ELSE ConvertRoutes(Tail(routes), Append(calendar_events, calendar_event.value[1]))

\* What a day operation has done when it first needs the outside world:
\* the lists it built, the pairs it will route and its outcome so far.
DayState(events, sorted_events, unique_events, to_plan, outcome) ==
    [events |-> events, sorted_events |-> sorted_events, unique_events |-> unique_events,
     to_plan |-> to_plan, outcome |-> outcome]

\* process_events up to its first call of plan_route_between_events.
process_events(input_events, config_ok, now) ==
    IF input_events = <<>> THEN DayState(<<>>, <<>>, <<>>, <<>>, Returned(<<>>))
    ELSE IF ~config_ok /\ \E i \in 1..Len(input_events) : BlankLocation(input_events[i].location)
    THEN DayState(input_events, <<>>, <<>>, <<>>, Raised("AttributeError"))
    ELSE LET events == IF config_ok THEN BackFill(input_events) ELSE input_events
             filtered == filtered_events(events)
         IN IF Len(filtered) < 1 THEN DayState(events, <<>>, <<>>, <<>>, Returned(<<>>))
            ELSE IF SortRaises(filtered)
            THEN DayState(events, <<>>, <<>>, <<>>, Raised("TypeError"))
            ELSE LET sorted_events == sorted(filtered)
                     unique_events == Unique(sorted_events)
                     first_event == unique_events[1]
                     pairs == ConsecutivePairs(unique_events)
                 IN IF ~config_ok
                    THEN DayState(events, sorted_events, unique_events, <<>>,
                                  Raised("AttributeError"))
                    ELSE IF HomeAnchorNeeded(first_event)
                    THEN LET home_event == CalendarEvent(<<HomeEventDict(first_event, now)>>)
                         IN IF home_event.status = "raised"
                            THEN DayState(events, sorted_events, unique_events, <<>>, home_event)
                            ELSE DayState(events, sorted_events, unique_events,
                                          <<<<home_event.value[1], first_event>>>> \o pairs,
                                          Pending("pairs"))
                    ELSE DayState(events, sorted_events, unique_events, pairs,
                                  IF pairs = <<>> THEN ConvertRoutes(<<>>, <<>>)
                                  ELSE Pending("pairs"))

\* plan_routes_for_events up to its first call of plan_route_between_events.
plan_routes_for_events(input_events) ==
    IF Len(input_events) < 2
    THEN DayState(input_events, <<>>, <<>>, <<>>, Returned(<<>>))
    ELSE IF SortRaises(input_events)
    THEN DayState(input_events, <<>>, <<>>, <<>>, Raised("TypeError"))
    ELSE LET sorted_events == sorted(input_events)
         IN DayState(input_events, sorted_events, <<>>, ConsecutivePairs(sorted_events),
                     Pending("pairs"))

\* The outcome of an operation once every pair is routed.
FinishDay(op, routes) ==
    IF op = "process_events" THEN ConvertRoutes(routes, <<>>) ELSE Returned(routes)

(***************************************************************************)
(* APIClient.query_otp_graphql in offline mode (api_client.py)             *)
(***************************************************************************)
\* Minutes are carried in sixtieths; a distance in metres.
Min(a, b) == IF a <= b THEN a ELSE b
Minutes(n) == n * 60

\* "travel_time_minutes = 10  # Default for short distances"
DefaultMockMinutes == 10
\* "if distance_km < 1.5", 12 min/km on foot, 3 min/km by bus, and
\* min(5, distance_km * 2) minutes to walk to or from a stop.
MockWalkingDistanceM == 1500
MockWalkMinPerKm == 12
MockBusMinPerKm == 3
MockStopWalkCapMinutes == 5
MockStopWalkMinPerKm == 2

\* _create_mock_leg: the leg ends (30 - minutes_before_arrival) minutes
\* before the target arrival and starts five minutes earlier; the target is
\* the parsed arrival text, or now + 30 minutes without a usable text.
create_mock_leg(mode, arrival_time_str, minutes_before_arrival, from_name, to_name, now) ==
    LET target_arrival_time ==
            IF arrival_time_str # None /\ arrival_time_str[1].ok
            THEN arrival_time_str[1].t ELSE now + Minutes(30)
        leg_end_time == target_arrival_time - (Minutes(30) - minutes_before_arrival)
        leg_start_time == leg_end_time - Minutes(5)
    IN [mode |-> mode, startTime |-> leg_start_time, endTime |-> leg_end_time,
        from |-> from_name, to |-> to_name]

\* Python truth of a coordinate: None and 0 are false.
TruthyNumber(x) == x # None /\ x[1] # 0

\* Mutant: the walk to each stop always takes the capped five minutes.
MockTransitMinutes_FlatTen(distance) ==
    ((Minutes(MockBusMinPerKm) * distance) \div 1000) + 2 * Minutes(MockStopWalkCapMinutes)

\* walk_time_1 + bus_time + walk_time_2 of the longer trip.
MockTransitMinutes(distance) ==
    LET walk_time == Min(Minutes(MockStopWalkCapMinutes),
                         ((Minutes(MockStopWalkMinPerKm) * distance) \div 1000))
        bus_time == ((Minutes(MockBusMinPerKm) * distance) \div 1000)
    IN walk_time + bus_time + walk_time

\* The offline branch: variables holds from/to coordinates (None where the
\* key is absent) and the arrival time text; the result is the one mock
\* itinerary, with its distance when one was computed.
\* APIClient.wellington_stops: the planner's seven stops and two more on
\* Cuba Street.
client_wellington_stops ==
    wellington_stops \o
    << Stop("5008", "Cuba Street", 0 - 9184, MeridianLon),
       Stop("5505", "Cuba Street at Manners Street", 0 - 9183, MeridianLon) >>

\* APIClient._get_hardcoded_stop_near returns the stop itself.
client_get_hardcoded_stop_near(lat, lon) == NearestOf(client_wellington_stops, lat, lon)

query_otp_graphql_offline(variables, now) ==
    IF /\ TruthyNumber(variables.from_lat) /\ TruthyNumber(variables.from_lon)
       /\ TruthyNumber(variables.to_lat) /\ TruthyNumber(variables.to_lon)
    THEN LET distance == haversine_distance(variables.from_lat[1], variables.from_lon[1],
                                            variables.to_lat[1], variables.to_lon[1])
         IN IF distance < MockWalkingDistanceM
            THEN LET travel_time_minutes == ((Minutes(MockWalkMinPerKm) * distance) \div 1000)
                 IN [distance |-> Some(distance),
                     travel_time_minutes |-> travel_time_minutes,
                     duration |-> travel_time_minutes * 60,
                     legs |-> <<create_mock_leg("WALK", variables.time, travel_time_minutes,
                                                "Origin", "Destination", now)>>]
            ELSE LET walk_time_1 == Min(Minutes(MockStopWalkCapMinutes),
                                        ((Minutes(MockStopWalkMinPerKm) * distance) \div 1000))
                     bus_time == ((Minutes(MockBusMinPerKm) * distance) \div 1000)
                     travel_time_minutes == MockTransitMinutes(distance)
                     origin_stop == client_get_hardcoded_stop_near(variables.from_lat[1],
                                                                   variables.from_lon[1])
                     dest_stop == client_get_hardcoded_stop_near(variables.to_lat[1],
                                                                 variables.to_lon[1])
                 IN [distance |-> Some(distance),
                     travel_time_minutes |-> travel_time_minutes,
                     duration |-> travel_time_minutes * 60,
                     legs |-> <<create_mock_leg("WALK", variables.time, walk_time_1,
                                                "Origin", origin_stop.name, now),
                                create_mock_leg("BUS", variables.time, bus_time + walk_time_1,
                                                origin_stop.name, dest_stop.name, now),
                                create_mock_leg("WALK", variables.time, travel_time_minutes,
                                                dest_stop.name, "Destination", now)>>]
    ELSE [distance |-> None,
          travel_time_minutes |-> Minutes(DefaultMockMinutes),
          duration |-> Minutes(DefaultMockMinutes) * 60,
          legs |-> <<create_mock_leg("WALK", variables.time, Minutes(DefaultMockMinutes),
                                      "Origin", "Destination", now)>>]

(***************************************************************************)
(* APIClient: address normalisation, the geocode cache, the trip-planner   *)
(* endpoints and the offline switch (api_client.py)                        *)
(***************************************************************************)
\* Every character of s is one of the characters of alphabet.
AllIn(s, alphabet) ==
    \A i \in 1..Len(s) : \E j \in 1..Len(alphabet) : SubSeq(alphabet, j, j) = SubSeq(s, i, i)

\* re.compile(r'^([A-Za-z]{2,4})(\d{1,3})$').match: Some(group 1) or None.
vuw_code_pattern(s) ==
    LET splits == {n \in 2..4 : /\ n < Len(s)
                                /\ Len(s) - n <= 3
                                /\ AllIn(SubSeq(s, 1, n), UpperAlphabet \o LowerAlphabet)
                                /\ AllIn(SubSeq(s, n + 1, Len(s)), "0123456789")}
    IN IF splits = {} THEN None ELSE Some(SubSeq(s, 1, CHOOSE n \in splits : TRUE))

\* The dict of _normalize_address, in insertion order.
client_wellington_locations ==
    LET cotton == "Cotton Building, Kelburn Campus, Victoria University, Wellington, New Zealand"
        murphy == "Murphy Building, Kelburn Campus, Victoria University, Wellington, New Zealand"
        zoo == "Wellington Zoo, 200 Daniell Street, Newtown, Wellington 6021, New Zealand"
        vuw == "Victoria University of Wellington, Kelburn Parade, Wellington, New Zealand"
    IN << <<"CO246", cotton>>, <<"CO238", cotton>>, <<"CO219", cotton>>, <<"CO118", cotton>>,
          <<"MYLT101", murphy>>, <<"MYLT102", murphy>>, <<"MYLT103", murphy>>, <<"MY", murphy>>,
          <<"KK", "Kirk Building, Kelburn Campus, Victoria University, Wellington, New Zealand">>,
          <<"HM", "Hugh Mackenzie Building, Kelburn Campus, Victoria University, Wellington, New Zealand">>,
          <<"EA", "Easterfield Building, Kelburn Campus, Victoria University, Wellington, New Zealand">>,
          <<"von zedlitz", "von Zedlitz Building, Kelburn Campus, Victoria University, Wellington, New Zealand">>,
          <<"VZ", "von Zedlitz Building, Kelburn Campus, Victoria University, Wellington, New Zealand">>,
          <<"CO", cotton>>, <<"zoo", zoo>>, <<"Wellington Zoo", zoo>>,
          <<"VUW", vuw>>, <<"Kelburn Campus", vuw>> >>

buildings == <<
    <<"CO", "Cotton Building">>, <<"MY", "Murphy Building">>,
    <<"MYLT", "Murphy Lecture Theatre">>, <<"KK", "Kirk Building">>,
    <<"HM", "Hugh Mackenzie Building">>, <<"EA", "Easterfield Building">>,
    <<"VZ", "von Zedlitz Building">>, <<"MC", "Maclaurin Building">>,
    <<"AM", "Alan MacDiarmid Building">> >>

\* The value of the first pair of a dict (a sequence of <<key, value>>)
\* whose index is among hits, as Some(value), or None.
FirstHit(dict, hits) ==
    IF hits = {} THEN None
    ELSE Some(dict[CHOOSE i \in hits : \A j \in hits : i <= j][2])

\* APIClient._normalize_address.  The keys of buildings are upper case, so
\* group(1).upper() is a key exactly when the two agree in lower case.
normalize_address(address) ==
    IF address = "" THEN ""
    ELSE LET stripped == Strip(address)
             match == vuw_code_pattern(stripped)
             building == FirstHit(buildings,
                             {i \in 1..Len(buildings) : Lower(buildings[i][1]) = Lower(match[1])})
             exact == FirstHit(client_wellington_locations,
                          {i \in 1..Len(client_wellington_locations) :
                              client_wellington_locations[i][1] = stripped})
             within == FirstHit(client_wellington_locations,
                           {i \in 1..Len(client_wellington_locations) :
                               Contains(Lower(stripped), Lower(client_wellington_locations[i][1]))})
             normalized ==
                 IF match # None
                 THEN IF building # None
                      THEN building[1] \o ", Kelburn Campus, Victoria University, Wellington, New Zealand"
                      ELSE stripped
                 ELSE IF exact # None THEN exact[1]
                 ELSE IF within # None THEN within[1]
                 ELSE stripped
         IN IF /\ ~Contains(Lower(normalized), "wellington")
               /\ ~Contains(Lower(normalized), "new zealand")
               /\ ~\E loc \in {"street", "road", "avenue", "drive"} :
                      Contains(Lower(normalized), loc)
            THEN normalized \o ", Wellington, New Zealand"
            ELSE normalized

Coords(lat) == [lat |-> lat, lon |-> MeridianLon]

\* The predefined coordinates of offline mode, in steps of latitude.
offline_geocode_data ==
    LET zoo == Coords(0 - 9189)
        vuw == Coords(0 - 9182)
        cuba == Coords(0 - 9183)
        willis == Coords(0 - 9182)
        lambton == Coords(0 - 9181)
        station == Coords(StationLat)
        terrace == Coords(0 - 9181)
        te_papa == Coords(0 - 9183)
        botanic == Coords(0 - 9181)
    IN << <<"wellington zoo", zoo>>,
          <<"wellington zoo, 200 daniell street, newtown, wellington 6021, new zealand", zoo>>,
          <<"victoria university", vuw>>,
          <<"victoria university of wellington, kelburn parade, wellington, new zealand", vuw>>,
          <<"kelburn campus", vuw>>,
          <<"kelburn campus, victoria university, wellington, new zealand", vuw>>,
          <<"cotton building", Coords(0 - 9182)>>,
          <<"murphy building", Coords(0 - 9182)>>,
          <<"cuba street", cuba>>,
          <<"cuba street, wellington, new zealand", cuba>>,
          <<"willis street", willis>>,
          <<"willis street, wellington, new zealand", willis>>,
          <<"lambton quay", lambton>>,
          <<"lambton quay, wellington, new zealand", lambton>>,
          <<"wellington railway station", station>>,
          <<"wellington station", station>>,
          <<"123 the terrace, wellington", terrace>>,
          <<"the terrace, wellington", terrace>>,
          <<"te papa museum", te_papa>>,
          <<"te papa museum, wellington, new zealand", te_papa>>,
          <<"wellington botanic garden", botanic>>,
          <<"wellington botanic garden, wellington, new zealand", botanic>> >>

\* The partial-match loop over offline_geocode_data.
PartialMatch(normalized) ==
    FirstHit(offline_geocode_data,
             {i \in 1..Len(offline_geocode_data) :
                 \/ Contains(Lower(normalized), offline_geocode_data[i][1])
                 \/ Contains(offline_geocode_data[i][1], Lower(normalized))})

\* An offline lookup that returns None unless a branch stores coordinates.
OfflineLookup_NoneWhenAbsent(normalized) ==
    LET partial == PartialMatch(normalized)
    IN [coords |-> partial, stored |-> partial # None]

\* A lookup in offline mode: the coordinates returned, and whether the
\* branch taken writes them to geocode_cache.  The last branch returns the
\* city centre (-41.2865, 174.7762) and writes nothing.
OfflineLookup(normalized) ==
    LET normalized_lower == Lower(normalized)
        direct == FirstHit(offline_geocode_data,
                           {i \in 1..Len(offline_geocode_data) :
                               offline_geocode_data[i][1] = normalized_lower})
        partial == PartialMatch(normalized)
        Stored(coords) == [coords |-> Some(coords), stored |-> TRUE]
    IN IF direct # None THEN Stored(direct[1])
       ELSE IF partial # None THEN Stored(partial[1])
       ELSE IF Contains(normalized_lower, "zoo") THEN Stored(Coords(0 - 9189))
       ELSE IF \E keyword \in {"victoria", "university", "vuw", "kelburn campus"} :
                   Contains(normalized_lower, keyword)
            THEN Stored(Coords(0 - 9182))
       ELSE IF Contains(normalized_lower, "cotton") THEN Stored(Coords(0 - 9182))
       ELSE IF Contains(normalized_lower, "murphy") THEN Stored(Coords(0 - 9182))
       ELSE IF Contains(normalized_lower, "cuba") THEN Stored(Coords(0 - 9183))
       ELSE [coords |-> Some(Coords(0 - 9182)), stored |-> FALSE]

\* The keyword fallbacks of an online lookup whose result list is empty.
EmptyResultFallback(normalized) ==
    LET normalized_lower == Lower(normalized)
    IN IF Contains(normalized_lower, "wellington zoo") THEN Some(Coords(0 - 9189))
       ELSE IF \E keyword \in {"victoria university", "vuw", "kelburn campus"} :
                   Contains(normalized_lower, keyword)
            THEN Some(Coords(0 - 9182))
       ELSE IF Contains(normalized_lower, "cotton building") THEN Some(Coords(0 - 9182))
       ELSE IF Contains(normalized_lower, "murphy") THEN Some(Coords(0 - 9182))
       ELSE None

\* Every address text a modelled caller geocodes through the client.
ClientAddresses == {"", "Cafe", " Cafe", "zoo", "Wellington Zoo", "CO246"}

\* _normalize_address, tabulated once over those texts.
NormalizeTable == [address \in ClientAddresses |-> normalize_address(address)]

\* What a lookup computes from the text of a normalized address, tabulated
\* once: the offline lookup, the partial match taken after an exception and
\* the fallback taken on an empty result.
LookupTable ==
    [normalized \in {NormalizeTable[address] : address \in ClientAddresses} |->
        [offline |-> OfflineLookup(normalized),
         partial |-> PartialMatch(normalized),
         empty |-> EmptyResultFallback(normalized)]]

\* A lookup whose request came back: an exception (raised by requests.get
\* or by float() on the result), a status other than 200, an empty result
\* list, or a first result.
OnlineLookup(normalized, resp) ==
    LET Found(coords) == [coords |-> coords, stored |-> coords # None]
    IN IF resp.kind = "exception" \/ (resp.status = 200 /\ resp.data # <<>> /\ ~resp.data[1].ok)
       THEN Found(LookupTable[normalized].partial)
       ELSE IF resp.status # 200 THEN Found(None)
       ELSE IF resp.data = <<>> THEN Found(LookupTable[normalized].empty)
       ELSE Found(Some([lat |-> resp.data[1].lat, lon |-> resp.data[1].lon]))

\* `normalized in self.geocode_cache`
CacheHit_Never(geocode_cache, normalized) == FALSE

CacheHit(geocode_cache, normalized) == normalized \in DOMAIN geocode_cache

\* `self.geocode_cache[normalized] = coords`
StoreCoords_Skip(geocode_cache, normalized, coords) == geocode_cache

StoreCoords(geocode_cache, normalized, coords) ==
    [key \in DOMAIN geocode_cache \cup {normalized} |->
        IF key = normalized THEN coords ELSE geocode_cache[key]]

\* geocode_address that asks Nominatim whatever the mode of the client.
geocode_address_until_request_IgnoreMode(address, geocode_cache, offline_mode) ==
    IF address = ""
    THEN [status |-> "returned", normalized |-> "", value |-> None,
          stored |-> FALSE, geocode_cache |-> geocode_cache]
    ELSE [status |-> "pending", normalized |-> NormalizeTable[address], value |-> None,
          stored |-> FALSE, geocode_cache |-> geocode_cache]

\* geocode_address up to its HTTP request: it returns at once (empty
\* address, cache hit, offline lookup) or goes on to ask Nominatim.
geocode_address_until_request(address, geocode_cache, offline_mode) ==
    IF address = ""
    THEN [status |-> "returned", normalized |-> "", value |-> None,
          stored |-> FALSE, geocode_cache |-> geocode_cache]
    ELSE LET normalized == NormalizeTable[address]
         IN IF CacheHit(geocode_cache, normalized)
            THEN [status |-> "returned", normalized |-> normalized,
                  value |-> Some(geocode_cache[normalized]),
                  stored |-> FALSE, geocode_cache |-> geocode_cache]
            ELSE IF offline_mode
            THEN LET found == LookupTable[normalized].offline
                 IN [status |-> "returned", normalized |-> normalized,
                     value |-> found.coords, stored |-> found.stored,
                     geocode_cache |-> IF found.stored
                                       THEN StoreCoords(geocode_cache, normalized, found.coords[1])
                                       ELSE geocode_cache]
            ELSE [status |-> "pending", normalized |-> normalized, value |-> None,
                  stored |-> FALSE, geocode_cache |-> geocode_cache]

\* geocode_address from the answer of its HTTP request to its return.
geocode_address_after_request(normalized, resp, geocode_cache) ==
    LET found == OnlineLookup(normalized, resp)
    IN [status |-> "returned", normalized |-> normalized,
        value |-> found.coords, stored |-> found.stored,
        geocode_cache |-> IF found.stored
                          THEN StoreCoords(geocode_cache, normalized, found.coords[1])
                          ELSE geocode_cache]

graphql_endpoints ==
    <<"/otp/index/graphql", "/otp/routers/default/index/graphql", "/graphql", "/otp/graphql">>

\* What one endpoint answers to a POST is [kind, body]: an "exception", a
\* "status" other than 200, a 200 body holding "errors", or a 200 body
\* holding the plan ("ok").  An endpoint works when
\* `response.status_code == 200` and `'errors' not in result`.
EndpointWorks_AnyStatus200(answer) == answer.kind \in {"ok", "errors"}

EndpointWorks(answer) == answer.kind = "ok"

\* The paths an online query_otp_graphql POSTs to, in order: the remembered
\* endpoint if there is one, and unless that one works, the configured
\* paths up to the first that works.
PostsMade_RetryAll(answers, working_graphql_endpoint) ==
    (IF working_graphql_endpoint # None THEN working_graphql_endpoint ELSE <<>>)
        \o graphql_endpoints

PostsMade(answers, working_graphql_endpoint) ==
    LET working == {i \in 1..Len(graphql_endpoints) : EndpointWorks(answers[graphql_endpoints[i]])}
        last == IF working = {} THEN Len(graphql_endpoints)
                ELSE CHOOSE i \in working : \A j \in working : i <= j
    IN IF working_graphql_endpoint = None THEN SubSeq(graphql_endpoints, 1, last)
       ELSE IF EndpointWorks(answers[working_graphql_endpoint[1]]) THEN working_graphql_endpoint
       ELSE working_graphql_endpoint \o SubSeq(graphql_endpoints, 1, last)

\* query_otp_graphql returning null, and leaving the client online, when
\* no endpoint works.
query_otp_graphql_NullOnFailure(variables, answers, offline_mode, working_graphql_endpoint, now) ==
    LET working == {i \in 1..Len(graphql_endpoints) : EndpointWorks(answers[graphql_endpoints[i]])}
        path == graphql_endpoints[CHOOSE i \in working : \A j \in working : i <= j]
    IN IF offline_mode
       THEN [value |-> Some([offline |-> TRUE,
                             body |-> query_otp_graphql_offline(variables, now)]),
             offline_mode |-> TRUE, working_graphql_endpoint |-> working_graphql_endpoint,
             posts |-> <<>>, recursed |-> FALSE]
       ELSE IF working # {}
       THEN [value |-> Some([offline |-> FALSE, body |-> answers[path].body]),
             offline_mode |-> FALSE, working_graphql_endpoint |-> Some(path),
             posts |-> PostsMade(answers, working_graphql_endpoint), recursed |-> FALSE]
       ELSE [value |-> None, offline_mode |-> FALSE, working_graphql_endpoint |-> None,
             posts |-> PostsMade(answers, working_graphql_endpoint), recursed |-> FALSE]

\* query_otp_graphql.  answers maps each endpoint path to what it answers
\* during this call.  Gives the value returned (Some(response), never
\* None; offline marks the synthesized response), the two fields of the
\* client as the call leaves them, the POSTs made and whether the call
\* ended by calling itself in offline mode.
query_otp_graphql(variables, answers, offline_mode, working_graphql_endpoint, now) ==
    LET mock == Some([offline |-> TRUE, body |-> query_otp_graphql_offline(variables, now)])
        working == {i \in 1..Len(graphql_endpoints) : EndpointWorks(answers[graphql_endpoints[i]])}
        path == graphql_endpoints[CHOOSE i \in working : \A j \in working : i <= j]
    IN IF offline_mode
       THEN [value |-> mock, offline_mode |-> TRUE,
             working_graphql_endpoint |-> working_graphql_endpoint,
             posts |-> <<>>, recursed |-> FALSE]
       ELSE IF /\ working_graphql_endpoint # None
               /\ EndpointWorks(answers[working_graphql_endpoint[1]])
       THEN [value |-> Some([offline |-> FALSE,
                             body |-> answers[working_graphql_endpoint[1]].body]),
             offline_mode |-> FALSE,
             working_graphql_endpoint |-> working_graphql_endpoint,
             posts |-> PostsMade(answers, working_graphql_endpoint), recursed |-> FALSE]
       ELSE IF working # {}
       THEN [value |-> Some([offline |-> FALSE, body |-> answers[path].body]),
             offline_mode |-> FALSE,
             working_graphql_endpoint |-> Some(path),
             posts |-> PostsMade(answers, working_graphql_endpoint), recursed |-> FALSE]
       ELSE [value |-> mock, offline_mode |-> TRUE, working_graphql_endpoint |-> None,
             posts |-> PostsMade(answers, working_graphql_endpoint), recursed |-> TRUE]

(***************************************************************************)
(* Event (event.py)                                                        *)
(*                                                                         *)
(* A Python value found under 'start', 'end' or 'dateTime' is a record     *)
(* with its type.  A str is ISO date-time text (form "datetime": the wall  *)
(* clock reading in seconds followed by the suffix tz, one of "", "Z",     *)
(* "+00:00", "+13:00"), ISO date text (form "date", no 'T' in it), or any  *)
(* other text, given literally.  A datetime object is its wall clock       *)
(* reading and its utcoffset (None when naive).                            *)
(***************************************************************************)
StrDateTime(local, tz) == [type |-> "str", form |-> "datetime", local |-> local, tz |-> tz]
StrDate(local) == [type |-> "str", form |-> "date", local |-> local]
StrOther(text) == [type |-> "str", form |-> "other", text |-> text]
IntValue(n) == [type |-> "int", n |-> n]
ListValue == [type |-> "list"]
DateTimeObject(local, utcoffset) ==
    [type |-> "datetime", local |-> local, utcoffset |-> utcoffset]
DictValue(dateTime, date, timeZone) ==
    [type |-> "dict", dateTime |-> dateTime, date |-> date, timeZone |-> timeZone]

\* The suffixes of ISO text and the utcoffset each one denotes.
UtcOffsets == << <<"", None>>, <<"+00:00", Some(0)>>, <<"+13:00", Some(13 * Hour)>> >>

\* Python truth of a value: None, '' and 0 are false.
TruthyValue(v) ==
    /\ v # None
    /\ ~(v[1].type = "str" /\ v[1].form = "other" /\ v[1].text = "")
    /\ ~(v[1].type = "int" /\ v[1].n = 0)

\* str.replace('Z', '+00:00').
ReplaceZ(s) ==
    IF s.form = "datetime" /\ s.tz = "Z" THEN StrDateTime(s.local, "+00:00") ELSE s

\* datetime.fromisoformat: Some(datetime), or None for ValueError.
fromisoformat(s) ==
    IF s.form = "date" THEN Some(DateTimeObject(s.local, None))
    ELSE IF s.form = "datetime" /\ \E i \in 1..Len(UtcOffsets) : UtcOffsets[i][1] = s.tz
    THEN LET i == CHOOSE j \in 1..Len(UtcOffsets) : UtcOffsets[j][1] = s.tz
         IN Some(DateTimeObject(s.local, UtcOffsets[i][2]))
    ELSE None

\* isoformat() leaving the utcoffset out.
datetime_isoformat_DropOffset(dt) == StrDateTime(dt.local, "")

\* datetime.isoformat().
datetime_isoformat(dt) ==
    LET i == CHOOSE j \in 1..Len(UtcOffsets) : UtcOffsets[j][2] = dt.utcoffset
    IN StrDateTime(dt.local, UtcOffsets[i][1])

\* Event._parse_datetime.  An int or a list has no attribute replace
\* (AttributeError, caught); datetime.replace called with two strings
\* raises TypeError, which is not caught.
Event_parse_datetime(datetime_str) ==
    IF ~TruthyValue(datetime_str) THEN [raised |-> None, value |-> None]
    ELSE IF datetime_str[1].type = "str"
    THEN [raised |-> None, value |-> fromisoformat(ReplaceZ(datetime_str[1]))]
    ELSE IF datetime_str[1].type = "datetime"
    THEN [raised |-> Some("TypeError"), value |-> None]
    ELSE [raised |-> None, value |-> None]

\* event_dict.get('start', {}) followed by the isinstance test: the text
\* kept as start_str (end_str).
TimeText(entry) ==
    IF entry = None THEN None
    ELSE IF entry[1].type = "dict" THEN entry[1].dateTime
    ELSE entry

\* Event.__init__.  event_dict holds each key as None (absent) or
\* Some(value); summary, location, description and id are plain strings.
Event_init(event_dict) ==
    LET start_str == TimeText(event_dict.start)
        end_str == TimeText(event_dict.end)
        start_time == Event_parse_datetime(start_str)
        end_time == Event_parse_datetime(end_str)
    IN [raised |-> IF start_time.raised # None THEN start_time.raised ELSE end_time.raised,
        id |-> event_dict.id,
        summary |-> IF event_dict.summary = None THEN "" ELSE event_dict.summary[1],
        location |-> event_dict.location,
        description |-> IF event_dict.description = None THEN "" ELSE event_dict.description[1],
        time_zone |-> IF /\ event_dict.start # None
                         /\ event_dict.start[1].type = "dict"
                         /\ event_dict.start[1].timeZone # None
                      THEN event_dict.start[1].timeZone[1]
                      ELSE "Pacific/Auckland",
        start_str |-> start_str,
        end_str |-> end_str,
        start_time |-> start_time.value,
        end_time |-> end_time.value]

\* `'T' in text`: TypeError on an int, a membership test on a list.
ContainsT(v) ==
    IF v.type = "str"
    THEN [raised |-> None,
          value |-> \/ v.form = "datetime"
                    \/ v.form = "other" /\ Contains(v.text, "T")]
    ELSE IF v.type = "list" THEN [raised |-> None, value |-> FALSE]
    ELSE [raised |-> Some("TypeError"), value |-> FALSE]

\* The "start" or "end" entry to_dict writes from a parsed time, else from
\* the original text, else from the default.
TimeEntry(time, str, default, time_zone) ==
    IF time # None
    THEN Some(DictValue(Some(datetime_isoformat(time[1])), None, Some(time_zone)))
    ELSE IF TruthyValue(str)
    THEN IF ContainsT(str[1]).value
         THEN Some(DictValue(str, None, Some(time_zone)))
         ELSE Some(DictValue(None, str, Some(time_zone)))
    ELSE IF default # None
    THEN Some(DictValue(Some(datetime_isoformat(default[1])), None, Some(time_zone)))
    ELSE None

SummaryOut(summary) == IF summary # "" THEN summary ELSE "Untitled Event"

\* Event.to_dict.
Event_to_dict(self) ==
    LET bad(time, str) == time = None /\ TruthyValue(str) /\ ContainsT(str[1]).raised # None
        hour_later == IF self.start_time = None THEN None
                      ELSE Some(DateTimeObject(self.start_time[1].local + Hour,
                                               self.start_time[1].utcoffset))
    IN IF bad(self.start_time, self.start_str) \/ bad(self.end_time, self.end_str)
       THEN [raised |-> Some("TypeError"), value |-> None]
       ELSE [raised |-> None,
             value |-> Some([summary |-> Some(SummaryOut(self.summary)),
                             start |-> TimeEntry(self.start_time, self.start_str, None,
                                                 self.time_zone),
                             end |-> TimeEntry(self.end_time, self.end_str, hour_later,
                                               self.time_zone),
                             location |-> IF Truthy(self.location)
                                          THEN self.location ELSE None,
                             description |-> IF self.description # ""
                                             THEN Some(self.description) ELSE None,
                             id |-> IF Truthy(self.id) THEN self.id ELSE None])]

(***************************************************************************)
(* Bounds and inputs                                                       *)
(***************************************************************************)
\* Geocoding answers place a point 0..MaxPos steps south of the station.
MaxPos == 2

OriginEnd == 9 * Hour
DestStart == 10 * Hour
NowInstant == 8 * Hour
PredictedInstant == NowInstant + 5 * 60

OriginEvents ==
    {Event("Lecture", Some("Cafe"), "", None, end) : end \in {None, Some(OriginEnd)}}
    \cup {Event("COMP102 Lab", location, "", None, Some(OriginEnd)) :
            location \in {None, Some(""), Some("zoo")}}

\* <<summary, description>> of destination events.
DestTags == {<<"Meeting", "">>, <<"Meeting", "Bring ID #Fixed">>, <<"Meeting", "#flexible">>,
             <<"Exam #fixed", "#flexible">>, <<"Coffee #FLEXIBLE", "#fixed">>}

DestEvents ==
    {Event(tags[1], Some("Library"), tags[2], Some(DestStart), None) : tags \in DestTags}
    \cup {Event("Meeting", Some("Library"), "", None, None)}
    \cup {Event("Comp lab", location, "", Some(DestStart), None) :
            location \in {None, Some(""), Some(" "), Some("Wellington Zoo")}}

GeoAnswers ==
    {GeoException, GeoHttp(500, <<>>), GeoHttp(200, <<>>),
     GeoHttp(200, <<[ok |-> FALSE, lat |-> 0, lon |-> 0]>>)}
    \cup {GeoHttp(200, <<GeoEntry(StationLat - k)>>) : k \in 0..MaxPos}

\* Stop lists the stops API may answer with: a malformed entry is skipped.
ApiStops == <<StopEntry(FALSE, "7000", "Broken", StationLat),
              StopEntry(TRUE, "7001", "Bunny Street", StationLat),
              StopEntry(TRUE, "7002", "Manners Street", StationLat - 3)>>

StopsAnswers ==
    {StopsException, StopsHttp(500, "other", <<>>), StopsHttp(200, "other", <<>>),
     StopsHttp(200, "dict", <<>>), StopsHttp(200, "list", ApiStops)}

Prediction(expected_departure_time) == [expected_departure_time |-> expected_departure_time]

PredAnswers ==
    {PredException, PredHttp(500, "dict", <<>>), PredHttp(200, "dict", <<>>),
     PredHttp(200, "departures", <<Prediction(Some(isoformat(PredictedInstant)))>>),
     PredHttp(200, "departures", <<Prediction(Some(MalformedText))>>)}

\* What the trip planner would answer for the pair: null, no itinerary, or
\* itineraries, each a stated duration (seconds) and legs with start and end
\* instants.
Leg(mode, startTime, endTime) == [mode |-> mode, startTime |-> startTime, endTime |-> endTime]
Itinerary(duration, legs) == [duration |-> duration, legs |-> legs]
OtpNull == [null |-> TRUE, itineraries |-> <<>>]
OtpPlan(itineraries) == [null |-> FALSE, itineraries |-> itineraries]

OtpAnswers ==
    {OtpNull,
     OtpPlan(<<Itinerary(600, <<Leg("WALK", DestStart - 300, DestStart)>>)>>),
     OtpPlan(<<Itinerary(900, <<Leg("WALK", DestStart - 1200, DestStart - 900),
                                Leg("BUS", DestStart - 900, DestStart - 120)>>),
               Itinerary(600, <<Leg("WALK", DestStart - 600, DestStart)>>)>>)}

(***************************************************************************)
(* One call of plan_route_between_events                                   *)
(***************************************************************************)
VARIABLES pc, event1, event2, env, result, otp
\* The day operations: which one runs, the event list as the caller gave
\* it, self.events, the sorted and the deduplicated list, the pairs to
\* route, the routes collected, and the calls of plan_route_between_events
\* made so far with their outcomes.
VARIABLES op, given_events, events, sorted_events, unique_events, to_plan, routes, calls

\* The two estimators: the coordinates given and the estimate made.
VARIABLES from_point, to_point, estimate

\* One APIClient: its three mutable fields; the mode its owner last set;
\* each thread's position inside geocode_address; and the calls completed
\* so far, in order of completion, with what they returned.
VARIABLES geocode_cache, offline_mode, working_graphql_endpoint
VARIABLES mode_as_set, frames, client_calls

\* One event dictionary taken through Event(...) and to_dict(): the
\* dictionary given, the Event constructed last (or the exception raised),
\* the dictionaries to_dict returned so far, and what comes next.
VARIABLES given_dict, constructed, dicts_out, event_pc

estvars == <<from_point, to_point, estimate>>
clientvars == <<geocode_cache, offline_mode, working_graphql_endpoint,
                mode_as_set, frames, client_calls>>
callvars == <<event1, event2, otp>>
dayvars == <<op, given_events, events, sorted_events, unique_events, to_plan, routes, calls>>
eventvars == <<given_dict, constructed, dicts_out, event_pc>>
vars == <<pc, env, result, callvars, dayvars, estvars, clientvars, eventvars>>

Threads == {1, 2}
IdleFrame == [pc |-> "idle", address |-> "", normalized |-> "", offline |-> FALSE, began |-> 0]

PcAfter(outcome) == IF outcome.status = "pending" THEN "running" ELSE "done"

InitCommon ==
    /\ pc = "idle"
    /\ event1 = None
    /\ event2 = None
    /\ env = NoAnswers(TRUE)
    /\ result = Pending("call")
    /\ otp = None
    /\ op = ""
    /\ given_events = <<>>
    /\ events = <<>>
    /\ sorted_events = <<>>
    /\ unique_events = <<>>
    /\ to_plan = <<>>
    /\ routes = <<>>
    /\ calls = <<>>
    /\ estimate = None
    /\ geocode_cache = <<>>
    /\ offline_mode = FALSE
    /\ working_graphql_endpoint = None
    /\ mode_as_set = FALSE
    /\ frames = [t \in Threads |-> IdleFrame]
    /\ client_calls = <<>>
    /\ constructed = None
    /\ dicts_out = <<>>
    /\ event_pc = "dict"

Init == InitCommon /\ from_point = None /\ to_point = None /\ given_dict = None

\* A caller invokes plan_route_between_events(e1, e2).
Call ==
    /\ pc = "idle"
    /\ \E e1 \in OriginEvents, e2 \in DestEvents, config_ok \in BOOLEAN :
          /\ event1' = Some(e1)
          /\ event2' = Some(e2)
          /\ env' = NoAnswers(config_ok)
          /\ result' = plan_route_between_events(e1, e2, NoAnswers(config_ok))
          /\ pc' = PcAfter(result')
    /\ UNCHANGED <<otp, dayvars, estvars, clientvars, eventvars>>

\* Nominatim answers the two geocoding requests.
AnswerGeocode ==
    /\ pc = "running"
    /\ result.exc = "geocode"
    /\ \E r1 \in GeoAnswers, r2 \in GeoAnswers :
          /\ env' = [env EXCEPT !.geo = Some(<<r1, r2>>)]
          /\ result' = plan_route_between_events(event1[1], event2[1], env')
          /\ pc' = PcAfter(result')
    /\ UNCHANGED <<event1, event2, otp, dayvars, estvars, clientvars, eventvars>>

\* Metlink answers the two stop lookups.
AnswerStops ==
    /\ pc = "running"
    /\ result.exc = "stops"
    /\ \E s1 \in StopsAnswers, s2 \in StopsAnswers :
          /\ env' = [env EXCEPT !.stops = Some(<<s1, s2>>)]
          /\ result' = plan_route_between_events(event1[1], event2[1], env')
          /\ pc' = PcAfter(result')
    /\ UNCHANGED <<event1, event2, otp, dayvars, estvars, clientvars, eventvars>>

\* Metlink answers the predictions request, the clock is read, and the
\* route is built.  otp is what the trip planner would have answered.
AnswerFinish ==
    /\ pc = "running"
    /\ result.exc = "finish"
    /\ \E pred \in PredAnswers, tick \in {0, 1}, plan \in OtpAnswers :
          /\ env' = [env EXCEPT !.finish =
                        Some([pred |-> pred, now1 |-> NowInstant, now2 |-> NowInstant + tick])]
          /\ result' = plan_route_between_events(event1[1], event2[1], env')
          /\ pc' = PcAfter(result')
          /\ otp' = Some(plan)
    /\ UNCHANGED <<event1, event2, dayvars, estvars, clientvars, eventvars>>

Next == Call \/ AnswerGeocode \/ AnswerStops \/ AnswerFinish

Spec == Init /\ [][Next]_vars

(***************************************************************************)
(* One day operation: process_events or plan_routes_for_events             *)
(***************************************************************************)
\* Event lists hold at most MaxEvents events.
MaxEvents == 3

DayEvents ==
    {Event("Breakfast", Some("My House"), "", Some(8 * Hour), Some(8 * Hour + 1800)),
     Event("Lecture", Some("Cafe"), "", Some(9 * Hour), Some(10 * Hour)),
     Event("Re: Transit: timetable", Some(" cafe "), "#fixed", Some(11 * Hour), None),
     Event("Meeting", Some("Library"), "", None, None),
     Event("Transit: Cafe to Library", Some(""), "", Some(10 * Hour), None),
     WithOffset(Event("Lecture", None, "", Some(12 * Hour), None)),
     Event("Comp lab", Some(" "), "", Some(12 * Hour), None),
     Event("Standup", Some("Online meeting"), "", Some(13 * Hour), None)}

EventLists == UNION {[1..n -> DayEvents] : n \in 0..MaxEvents}

\* The answers one call of plan_route_between_events gets within a day
\* operation: a walk, a bus ride, a failed geocoding.
DayAnswer(geo2, stops) ==
    [geo |-> Some(<<GeoHttp(200, <<GeoEntry(StationLat)>>), geo2>>),
     stops |-> Some(<<stops, stops>>),
     finish |-> Some([pred |-> PredException, now1 |-> NowInstant, now2 |-> NowInstant])]

DayAnswers ==
    {DayAnswer(GeoHttp(200, <<GeoEntry(StationLat - 1)>>), StopsException),
     DayAnswer(GeoHttp(200, <<GeoEntry(StationLat - 9)>>), StopsException),
     DayAnswer(GeoHttp(500, <<>>), StopsException)}

StartDay(operation, input_events, state, config_ok) ==
    /\ op' = operation
    /\ given_events' = input_events
    /\ events' = state.events
    /\ sorted_events' = state.sorted_events
    /\ unique_events' = state.unique_events
    /\ to_plan' = state.to_plan
    /\ routes' = <<>>
    /\ calls' = <<>>
    /\ env' = NoAnswers(config_ok)
    /\ result' = state.outcome
    /\ pc' = PcAfter(result')
    /\ UNCHANGED <<callvars, estvars, clientvars, eventvars>>

\* A caller sets planner.events and invokes process_events().
CallProcessEvents ==
    /\ pc = "idle"
    /\ \E input_events \in EventLists, config_ok \in BOOLEAN :
          StartDay("process_events", input_events,
                   process_events(input_events, config_ok, NowInstant), config_ok)

\* A caller sets planner.events and invokes plan_routes_for_events().
CallPlanRoutesForEvents ==
    /\ pc = "idle"
    /\ \E input_events \in EventLists, config_ok \in BOOLEAN :
          StartDay("plan_routes_for_events", input_events,
                   plan_routes_for_events(input_events), config_ok)

\* The loop body: the next pair is routed with the answers the outside
\* world gives to that call; after the last pair the operation finishes.
PlanPair ==
    /\ pc = "running"
    /\ result.exc = "pairs"
    /\ \E answer \in DayAnswers :
          LET pair == to_plan[Len(calls) + 1]
              answered == [config_ok |-> env.config_ok, geo |-> answer.geo,
                           stops |-> answer.stops, finish |-> answer.finish]
              route == plan_route_between_events(pair[1], pair[2], answered)
          IN /\ env' = answered
             /\ calls' = Append(calls, [event1 |-> pair[1], event2 |-> pair[2],
                                        outcome |-> route])
             /\ routes' = IF route.status = "returned" /\ route.value # None
                          THEN Append(routes, route.value[1]) ELSE routes
             /\ result' = IF route.status = "raised" THEN route
                          ELSE IF Len(calls') = Len(to_plan) THEN FinishDay(op, routes')
                          ELSE Pending("pairs")
             /\ pc' = PcAfter(result')
    /\ UNCHANGED <<callvars, estvars, op, given_events, events, sorted_events, unique_events, to_plan, clientvars, eventvars>>

NextDay == CallProcessEvents \/ CallPlanRoutesForEvents \/ PlanPair

SpecDay == Init /\ [][NextDay]_vars

(***************************************************************************)
(* The two distance-based estimates on given coordinates                   *)
(***************************************************************************)
\* Coordinates lie 0..MaxStep steps south of the station.
MaxStep == 6

Point(lat) == [lat |-> lat, lon |-> MeridianLon]

\* A point may also be absent or lie on the equator (latitude 0).
Points == {None, Some(Point(0))} \cup {Some(Point(StationLat - k)) : k \in 0..MaxStep}

InitEstimate ==
    InitCommon /\ from_point \in Points /\ to_point \in Points /\ given_dict = None

\* plan_route_between_events on two events geocoded to the two points, with
\* the stop lookups falling back to the hardcoded stops.
EstimateByRoutePlanner ==
    /\ estimate = None
    /\ from_point # None
    /\ to_point # None
    /\ LET answered ==
               [config_ok |-> TRUE,
                geo |-> Some(<<GeoHttp(200, <<[ok |-> TRUE, lat |-> from_point[1].lat,
                                               lon |-> from_point[1].lon]>>),
                               GeoHttp(200, <<[ok |-> TRUE, lat |-> to_point[1].lat,
                                               lon |-> to_point[1].lon]>>)>>),
                stops |-> Some(<<StopsException, StopsException>>),
                finish |-> Some([pred |-> PredException, now1 |-> NowInstant,
                                 now2 |-> NowInstant])]
           route == plan_route_between_events(
                        Event("Lecture", Some("Cafe"), "", None, Some(OriginEnd)),
                        Event("Meeting", Some("Library"), "", Some(DestStart), None),
                        answered).value[1]
       IN estimate' = Some([by |-> "route_planner",
                            distance |-> Some(haversine_distance(
                                from_point[1].lat, from_point[1].lon,
                                to_point[1].lat, to_point[1].lon)),
                            walking |-> route.mode = Some("walking"),
                            minutes |-> route.estimated_travel_time_minutes,
                            route |-> route])
    /\ UNCHANGED <<pc, env, result, callvars, dayvars, from_point, to_point, clientvars, eventvars>>

\* query_otp_graphql of an offline client with the two points as from and to.
EstimateByOfflineClient ==
    /\ estimate = None
    /\ \E time \in {None, Some(isoformat(DestStart))} :
          LET coordinate(point, key) == IF point = None THEN None ELSE Some(point[1][key])
              mock == query_otp_graphql_offline(
                          [from_lat |-> coordinate(from_point, "lat"),
                           from_lon |-> coordinate(from_point, "lon"),
                           to_lat |-> coordinate(to_point, "lat"),
                           to_lon |-> coordinate(to_point, "lon"),
                           time |-> time], NowInstant)
          IN estimate' = Some([by |-> "api_client",
                               time |-> time,
                               distance |-> mock.distance,
                               walking |-> Len(mock.legs) = 1 /\ mock.legs[1].mode = "WALK",
                               minutes |-> mock.travel_time_minutes,
                               route |-> mock])
    /\ UNCHANGED <<pc, env, result, callvars, dayvars, from_point, to_point, clientvars, eventvars>>

NextEstimate == EstimateByRoutePlanner \/ EstimateByOfflineClient

SpecEstimate == InitEstimate /\ [][NextEstimate]_vars

(***************************************************************************)
(* One APIClient used by its callers                                       *)
(***************************************************************************)
\* The calls begun on the client, completed or not, are at most MaxCalls.
MaxCalls == 2

\* What Nominatim may answer to one request.
ClientGeoAnswers ==
    {GeoException, GeoHttp(500, <<>>), GeoHttp(200, <<>>),
     GeoHttp(200, <<GeoEntry(StationLat)>>), GeoHttp(200, <<GeoEntry(StationLat - 1)>>)}

\* The variables of a plan query: a short and a long way.
QueryVariables ==
    {[from_lat |-> Some(StationLat), from_lon |-> Some(MeridianLon),
      to_lat |-> Some(StationLat - k), to_lon |-> Some(MeridianLon),
      time |-> Some(isoformat(DestStart))] : k \in {1, 9}}

\* What the trip planner's endpoints may answer during one query: none
\* works, the first works, only the third does, or the first answers that
\* it found no itinerary.
EndpointAnswers ==
    LET plan == [kind |-> "ok",
                 body |-> OtpPlan(<<Itinerary(600, <<Leg("WALK", DestStart - 600, DestStart)>>)>>)]
    IN {[path \in {graphql_endpoints[i] : i \in 1..Len(graphql_endpoints)} |->
            IF shape = "first" /\ path = graphql_endpoints[1] THEN plan
            ELSE IF shape = "third" /\ path = graphql_endpoints[3] THEN plan
            ELSE IF shape = "empty" /\ path = graphql_endpoints[1]
                 THEN [kind |-> "ok", body |-> OtpPlan(<<>>)]
            ELSE IF path = graphql_endpoints[1] THEN [kind |-> "status", body |-> None]
            ELSE IF path = graphql_endpoints[2] THEN [kind |-> "errors", body |-> None]
            ELSE [kind |-> "exception", body |-> None]] : shape \in {"none", "first", "third", "empty"}}

Waiting == {t \in Threads : frames[t].pc = "waiting"}

CallsBegun == Len(client_calls) + Cardinality(Waiting)

GeocodeRecord(t, address, began, offline, resp, outcome) ==
    [op |-> "geocode_address", thread |-> t, address |-> address, resp |-> resp,
     normalized |-> outcome.normalized, began |-> began, offline |-> offline,
     requested |-> resp # None, stored |-> outcome.stored, value |-> outcome.value]

\* Thread t calls geocode_address(address) and runs it up to its return or
\* up to its HTTP request.
GeocodeCall(t) ==
    /\ frames[t].pc = "idle"
    /\ CallsBegun < MaxCalls
    /\ \E address \in ClientAddresses :
          LET outcome == geocode_address_until_request(address, geocode_cache, offline_mode)
          IN IF outcome.status = "returned"
             THEN /\ geocode_cache' = outcome.geocode_cache
                  /\ client_calls' = Append(client_calls,
                         GeocodeRecord(t, address, Len(client_calls), offline_mode, None, outcome))
                  /\ frames' = frames
             ELSE /\ frames' = [frames EXCEPT ![t] =
                         [pc |-> "waiting", address |-> address,
                          normalized |-> outcome.normalized, offline |-> offline_mode,
                          began |-> Len(client_calls)]]
                  /\ UNCHANGED <<geocode_cache, client_calls>>
    /\ UNCHANGED <<offline_mode, working_graphql_endpoint, mode_as_set>>
    /\ UNCHANGED <<pc, env, result, callvars, dayvars, estvars, eventvars>>

\* Nominatim answers thread t, and its geocode_address runs to its return.
GeocodeAnswer(t) ==
    /\ frames[t].pc = "waiting"
    /\ \E resp \in ClientGeoAnswers :
          LET outcome == geocode_address_after_request(frames[t].normalized, resp, geocode_cache)
          IN /\ geocode_cache' = outcome.geocode_cache
             /\ client_calls' = Append(client_calls,
                    GeocodeRecord(t, frames[t].address, frames[t].began, frames[t].offline,
                                  Some(resp), outcome))
    /\ frames' = [frames EXCEPT ![t] = IdleFrame]
    /\ UNCHANGED <<offline_mode, working_graphql_endpoint, mode_as_set>>
    /\ UNCHANGED <<pc, env, result, callvars, dayvars, estvars, eventvars>>

\* A caller runs query_otp_graphql from call to return.
QueryOtp ==
    /\ Waiting = {}
    /\ CallsBegun < MaxCalls
    /\ \E variables \in QueryVariables, answers \in EndpointAnswers :
          LET outcome == query_otp_graphql(variables, answers, offline_mode,
                                           working_graphql_endpoint, NowInstant)
          IN /\ offline_mode' = outcome.offline_mode
             /\ working_graphql_endpoint' = outcome.working_graphql_endpoint
             /\ client_calls' = Append(client_calls,
                    [op |-> "query_otp_graphql", variables |-> variables, answers |-> answers,
                     offline |-> offline_mode, mode_as_set |-> mode_as_set,
                     working_before |-> working_graphql_endpoint,
                     working_after |-> outcome.working_graphql_endpoint,
                     posts |-> outcome.posts, recursed |-> outcome.recursed,
                     value |-> outcome.value])
    /\ UNCHANGED <<geocode_cache, mode_as_set, frames>>
    /\ UNCHANGED <<pc, env, result, callvars, dayvars, estvars, eventvars>>

\* A caller runs get_stop_predictions from call to return: an exception
\* during the request switches the client to offline mode.
StopPredictions ==
    /\ Waiting = {}
    /\ CallsBegun < MaxCalls
    /\ \E resp \in {PredException, PredHttp(500, "dict", <<>>)} :
          /\ offline_mode' = (offline_mode \/ resp.kind = "exception")
          /\ client_calls' = Append(client_calls,
                 [op |-> "get_stop_predictions", resp |-> resp,
                  offline |-> offline_mode, mode_as_set |-> mode_as_set,
                  requested |-> ~offline_mode])
    /\ UNCHANGED <<geocode_cache, working_graphql_endpoint, mode_as_set, frames>>
    /\ UNCHANGED <<pc, env, result, callvars, dayvars, estvars, eventvars>>

\* A caller runs find_nearest_stop from call to return: offline it takes
\* the nearest of the client's own stops, online it asks the stops API and
\* takes the nearest stop of the answer, or of its own stops when the
\* request fails.
FindNearestStop ==
    /\ Waiting = {}
    /\ CallsBegun < MaxCalls
    /\ \E resp \in {StopsException,
                    StopsHttp(200, "list", <<StopEntry(TRUE, "7001", "Near", StationLat - 1)>>)} :
          LET lat == StationLat - 2
              stops == ParseStops(resp.stops)
              value == IF offline_mode \/ resp.kind = "exception" \/ stops = <<>>
                       THEN client_get_hardcoded_stop_near(lat, MeridianLon)
                       ELSE NearestOf(stops, lat, MeridianLon)
          IN client_calls' = Append(client_calls,
                 [op |-> "find_nearest_stop", resp |-> resp,
                  offline |-> offline_mode, mode_as_set |-> mode_as_set,
                  requested |-> ~offline_mode, value |-> value])
    /\ UNCHANGED <<geocode_cache, offline_mode, working_graphql_endpoint, mode_as_set, frames>>
    /\ UNCHANGED <<pc, env, result, callvars, dayvars, estvars, eventvars>>

\* The owner of the client assigns its offline_mode (main_cli).
SetOfflineMode ==
    /\ Waiting = {}
    /\ \E offline \in BOOLEAN :
          /\ offline # offline_mode \/ offline # mode_as_set
          /\ offline_mode' = offline
          /\ mode_as_set' = offline
    /\ UNCHANGED <<geocode_cache, working_graphql_endpoint, frames, client_calls>>
    /\ UNCHANGED <<pc, env, result, callvars, dayvars, estvars, eventvars>>

\* One caller at a time: every call returns before the next begins.
NextClient ==
    \/ GeocodeCall(1) \/ GeocodeAnswer(1) \/ QueryOtp \/ StopPredictions
    \/ FindNearestStop \/ SetOfflineMode

SpecClient == Init /\ [][NextClient]_vars

\* Two threads inside geocode_address at once, in online mode.
NextThreads == \E t \in Threads : GeocodeCall(t) \/ GeocodeAnswer(t)

SpecThreads == Init /\ [][NextThreads]_vars

(***************************************************************************)
(* One event dictionary through Event(...) and to_dict()                   *)
(***************************************************************************)
\* to_dict is applied at most RoundTrips times, each result being given to
\* Event(...) again.
RoundTrips == 2

\* The values found under 'dateTime', or directly under 'start'.
StartTexts ==
    {None, Some(StrDate(OriginEnd - 9 * Hour)), Some(StrOther("")), Some(StrOther("notadate")),
     Some(StrOther("Tomorrow")), Some(IntValue(0)), Some(IntValue(5)), Some(ListValue),
     Some(DateTimeObject(OriginEnd, None))}
    \cup {Some(StrDateTime(OriginEnd, tz)) : tz \in {"", "Z", "+13:00"}}

EndTexts ==
    {None, Some(StrDateTime(DestStart, "")), Some(StrDateTime(DestStart, "Z")),
     Some(StrOther("notadate")), Some(IntValue(5)), Some(DateTimeObject(DestStart, Some(0)))}

\* The entries 'start' and 'end': absent, a dict, or the value itself.
Entries(texts) ==
    {None} \cup texts
           \cup {Some(DictValue(text, None, timeZone)) : text \in texts, timeZone \in {None, Some("UTC")}}

EventDicts ==
    [id : {None, Some("evt1")},
     summary : {None, Some(""), Some("meeting")},
     location : {None, Some(""), Some("Place")},
     description : {None, Some("Desc")},
     start : Entries(StartTexts),
     end : {None} \cup {Some(DictValue(text, None, None)) : text \in EndTexts}]

InitEvent ==
    InitCommon /\ from_point = None /\ to_point = None /\ given_dict \in EventDicts

\* The dictionary Event(...) is applied to next.
CurrentDict == IF dicts_out = <<>> THEN given_dict ELSE dicts_out[Len(dicts_out)]

\* Event(d): the object, or the exception leaving the constructor.
Construct ==
    /\ event_pc = "dict"
    /\ constructed' = Some(Event_init(CurrentDict))
    /\ event_pc' = IF Event_init(CurrentDict).raised # None THEN "raised" ELSE "event"
    /\ UNCHANGED <<given_dict, dicts_out>>
    /\ UNCHANGED <<pc, env, result, callvars, dayvars, estvars, clientvars>>

\* event.to_dict(): the dictionary, or the exception leaving to_dict.
ToDict ==
    /\ event_pc = "event"
    /\ Len(dicts_out) < RoundTrips
    /\ LET out == Event_to_dict(constructed[1])
       IN IF out.raised # None
          THEN event_pc' = "raised" /\ dicts_out' = dicts_out
          ELSE event_pc' = "dict" /\ dicts_out' = Append(dicts_out, out.value[1])
    /\ UNCHANGED <<given_dict, constructed>>
    /\ UNCHANGED <<pc, env, result, callvars, dayvars, estvars, clientvars>>

NextEvent == Construct \/ ToDict

SpecEvent == InitEvent /\ [][NextEvent]_vars

(***************************************************************************)
(* Properties of one call                                                  *)
(***************************************************************************)
Done == pc = "done"
HasRoute == Done /\ result.status = "returned" /\ result.value # None
TheRoute == result.value[1]
Geo1 == geocode_address(event1[1].location, env.geo[1][1])
Geo2 == geocode_address(event2[1].location, env.geo[1][2])

C2_GeocodeFailureReturnsNone ==
    (Done /\ env.geo # None) =>
        /\ (Geo1 = None \/ Geo2 = None) => result = Returned(None)
        /\ (result.value # None) =>
              /\ Geo1 # None /\ TheRoute.from_geocoded = Geo1[1]
              /\ Geo2 # None /\ TheRoute.to_geocoded = Geo2[1]

C2_Witness ==
    /\ Done
    /\ env.geo # None
    /\ Geo1 # None
    /\ Geo2 = None
    /\ result = Returned(None)

\* The instant section 4.2 step 1 calls the target arrival.
TargetArrival ==
    IF event2[1].start_time # None THEN event2[1].start_time[1]
    ELSE IF event1[1].end_time # None THEN event1[1].end_time[1]
    ELSE env.finish[1].now1

\* The buffer the tags of a destination ask for, in seconds.
TagBuffer(summary, description) ==
    60 * (IF Contains(Lower(summary), "#fixed") THEN 20
          ELSE IF Contains(Lower(summary), "#flexible") THEN 10
          ELSE IF Contains(Lower(description), "#fixed") THEN 20
          ELSE IF Contains(Lower(description), "#flexible") THEN 10
          ELSE 15)
TagBufferTable ==
    [summary \in SummaryUniverse |->
        [description \in DescriptionUniverse |-> TagBuffer(summary, description)]]
ExpectedBuffer == TagBufferTable[event2[1].summary][event2[1].description]

C4_Original ==
    (Done /\ env.config_ok /\ env.geo # None /\ Geo1 # None /\ Geo2 # None)
        => (result.status = "returned" /\ result.value # None)

OtpUsable ==
    /\ otp # None
    /\ ~otp[1].null
    /\ otp[1].itineraries # <<>>
    /\ otp[1].itineraries[1].legs # <<>>

\* C8 as stated: with a usable trip planner answer the route's travel time
\* is the first itinerary's stated duration / 60.
C8_Original ==
    (HasRoute /\ OtpUsable) =>
        TheRoute.estimated_travel_time_minutes = otp[1].itineraries[1].duration

\* C9 as stated: with a usable trip planner answer the departure is the
\* first leg's start and the arrival the last leg's end of the first
\* itinerary.
C9_Original ==
    (HasRoute /\ OtpUsable) =>
        LET legs == otp[1].itineraries[1].legs
        IN /\ TheRoute.predicted_departure = Some(isoformat(legs[1].startTime))
           /\ TheRoute.estimated_arrival_time = Some(isoformat(legs[Len(legs)].endTime))

(***************************************************************************)
(* Properties of a day operation                                           *)
(***************************************************************************)
\* The events whose consecutive pairs the running operation routes.
RemainingEvents == IF op = "process_events" THEN unique_events ELSE sorted_events

\* The non-null results of the calls made so far, in call order.
NonNullResults ==
    LET kept == SelectSeq(calls, LAMBDA c : c.outcome.status = "returned"
                                             /\ c.outcome.value # None)
    IN [i \in 1..Len(kept) |-> kept[i].outcome.value[1]]

\* C5 as stated: process_events never raises; with a configured home
\* address it returns a list for every input event list.
C5_Original ==
    (pc = "done" /\ op = "process_events" /\ env.config_ok) => result.status = "returned"

\* C6 as stated: when a day operation ends, plan_route_between_events has
\* been called once for each consecutive pair of the remaining events, in
\* ascending order, and the routes collected are the non-null results in
\* pair order.
C6_Original ==
    (pc = "done" /\ op # "" /\ env.config_ok) =>
        /\ [i \in 1..Len(calls) |-> <<calls[i].event1, calls[i].event2>>]
              = ConsecutivePairs(RemainingEvents)
        /\ routes = NonNullResults

\* The first event of each maximal run of equal-location events of seq.
RunHeads(seq) ==
    LET heads == {i \in 1..Len(seq) :
                    \/ i = 1
                    \/ NormalizedTable[seq[i].location[1]]
                          # NormalizedTable[seq[i - 1].location[1]]}
    IN [k \in 1..Cardinality(heads) |->
           seq[CHOOSE i \in heads : Cardinality({j \in heads : j <= i}) = k]]

C12_Original ==
    (/\ pc = "done" /\ op = "process_events" /\ env.config_ok
     /\ unique_events # <<>>
     /\ NormalizedTable[unique_events[1].location[1]] # NormalizedTable[HOME_ADDRESS]
     /\ ~NamesAHomeTable[unique_events[1].location[1]])
        => /\ calls # <<>>
           /\ calls[1].event1.summary = "Home"
           /\ calls[1].event1.location = Some(HOME_ADDRESS)
           /\ calls[1].event1.start_time
                 = Some(IF unique_events[1].start_time # None
                        THEN unique_events[1].start_time[1] - Hour ELSE NowInstant)
           /\ calls[1].event2 = unique_events[1]

\* The events a day operation hands to sorted().
SortedInput ==
    IF op = "plan_routes_for_events"
    THEN IF Len(given_events) < 2 THEN <<>> ELSE given_events
    ELSE SelectSeq(events, KeptByFilter)

\* C13 as stated: the day planner orders all of its events, for every mix
\* of events: an event without a start comes before every event with one,
\* and events with a start come in ascending order of start.
C13_Original ==
    (op # "" /\ env.config_ok) =>
        /\ Len(sorted_events) = Len(SortedInput)
        /\ \A i, j \in 1..Len(sorted_events) :
              i < j =>
                 /\ sorted_events[j].start_time = None => sorted_events[i].start_time = None
                 /\ (sorted_events[i].start_time # None /\ sorted_events[j].start_time # None)
                       => sorted_events[i].start_time[1] <= sorted_events[j].start_time[1]

Markers == {"Transit:", "Walking:", "[TransitBot]"}
BeginsWithMarker == [summary \in SummaryUniverse |->
                        \E marker \in Markers : StartsWith(summary, marker)]
ContainsMarker == [summary \in SummaryUniverse |->
                      \E marker \in Markers : Contains(summary, marker)]

\* C15 as stated: no endpoint of a pair routed by process_events has a
\* summary that begins with or contains a self-generated marker.
C15_Original ==
    op = "process_events" =>
        \A k \in 1..Len(calls) :
            ~ContainsMarker[calls[k].event1.summary]
               /\ ~ContainsMarker[calls[k].event2.summary]

\* C15 as amended: no endpoint of a pair routed by process_events has a
\* summary that begins with a self-generated marker.
C15_NoMarkedEndpoint ==
    op = "process_events" =>
        \A k \in 1..Len(calls) :
            ~BeginsWithMarker[calls[k].event1.summary]
               /\ ~BeginsWithMarker[calls[k].event2.summary]

C15_Witness ==
    /\ op = "process_events"
    /\ calls # <<>>
    /\ \E i \in 1..Len(given_events) : given_events[i].summary = "Transit: Cafe to Library"
    /\ \E i \in 1..Len(unique_events) : unique_events[i].summary = "Re: Transit: timetable"

\* The virtual-meeting substrings of the event filter.
VirtualWords == {"online", "virtual", "zoom", "meet.google", "teams", "webex", "skype", "phone"}
NamesAVirtualPlace == [address \in AddressUniverse |->
                          \E word \in VirtualWords : Contains(Lower(address), word)]

\* C16 as stated: no endpoint of a pair routed by process_events has an
\* empty location or a location naming a virtual meeting.
C16_Original ==
    op = "process_events" =>
        \A k \in 1..Len(calls) :
            \A event \in {calls[k].event1, calls[k].event2} :
                Truthy(event.location) /\ ~NamesAVirtualPlace[event.location[1]]

(***************************************************************************)
(* Properties of the distance-based estimates                              *)
(***************************************************************************)
\* C10 as stated: an estimate made from a distance is walking with
\* 12 minutes per km exactly when the distance is below 1.5 km, and transit
\* with 3 minutes per km plus 10 minutes from 1.5 km on.
C10_Original ==
    (estimate # None /\ estimate[1].distance # None) =>
        LET distance == estimate[1].distance[1]
            minutes == estimate[1].minutes
        IN /\ estimate[1].walking <=> distance < 1500
           /\ distance < 1500 => 1000 * minutes = Minutes(12) * distance
           /\ distance >= 1500 => 1000 * minutes = Minutes(3) * distance + 1000 * Minutes(10)

\* C10 as amended: plan_route_between_events walks, at 12 minutes per km,
\* exactly when the straight-line distance is below 1.0 km, and otherwise
\* rides at 2 minutes per km of the distance between the two stops; the
\* offline trip-planner mock walks, at 12 minutes per km, exactly when the
\* distance is below 1.5 km, and otherwise takes 3 minutes per km plus twice
\* min(5, 2 per km) minutes over walk, bus and walk legs; without a usable
\* distance (a coordinate missing or zero) it gives one 10-minute walk.
C10_EstimateByDistance ==
    estimate # None =>
        LET minutes == estimate[1].minutes
            route == estimate[1].route
        IN IF estimate[1].by = "route_planner"
           THEN LET distance == estimate[1].distance[1]
                IN /\ estimate[1].walking <=> distance < 1000
                   /\ distance < 1000 => 1000 * minutes = Minutes(12) * distance
                   /\ distance >= 1000 =>
                         1000 * minutes
                            = Minutes(2) * MetresPerStep
                                * Abs(route.departure_stop[1].lat - route.arrival_stop[1].lat)
           ELSE IF estimate[1].distance = None
           THEN /\ \E point \in {from_point, to_point} : point = None \/ point[1].lat = 0
                /\ estimate[1].walking
                /\ minutes = Minutes(10)
           ELSE LET distance == estimate[1].distance[1]
                IN /\ estimate[1].walking <=> distance < 1500
                   /\ distance < 1500 => 1000 * minutes = Minutes(12) * distance
                   /\ distance >= 1500 =>
                         /\ 1000 * minutes
                               = Minutes(3) * distance
                                   + 2 * Min(1000 * Minutes(5), Minutes(2) * distance)
                         /\ [i \in 1..Len(route.legs) |-> route.legs[i].mode]
                               = <<"WALK", "BUS", "WALK">>

C10_Witness ==
    /\ estimate # None
    /\ estimate[1].by = "api_client"
    /\ estimate[1].distance = Some(2000)
    /\ ~estimate[1].walking
    /\ estimate[1].minutes = Minutes(14)

(***************************************************************************)
(* Properties of the client                                                *)
(***************************************************************************)
GeocodeCalls == {i \in DOMAIN client_calls : client_calls[i].op = "geocode_address"}
QueryCalls == {i \in DOMAIN client_calls : client_calls[i].op = "query_otp_graphql"}

\* The HTTP requests sent to Nominatim so far for one normalized address.
RequestsFor(normalized) ==
    Cardinality({i \in GeocodeCalls : /\ client_calls[i].normalized = normalized
                                      /\ client_calls[i].requested})
    + Cardinality({t \in Waiting : frames[t].normalized = normalized})

\* C17 as stated: over any sequence of geocode_address calls on one client,
\* all calls with the same normalized address return identical coordinates
\* and at most one HTTP request is issued per normalized address, failed
\* lookups and mode switches included.
C17_Original ==
    /\ \A i, j \in GeocodeCalls :
          client_calls[i].normalized = client_calls[j].normalized
              => client_calls[i].value = client_calls[j].value
    /\ \A address \in ClientAddresses : RequestsFor(NormalizeTable[address]) <= 1

\* C17 as the code has it: once a call has stored coordinates for a
\* normalized address, every later call with that normalized address
\* returns those coordinates and issues no HTTP request, also after a
\* switch between online and offline mode.
C17_StoredLookupsRepeat ==
    \A i, j \in GeocodeCalls :
        /\ i < j
        /\ client_calls[i].normalized = client_calls[j].normalized
        /\ client_calls[i].stored
        => /\ client_calls[j].value = client_calls[i].value
           /\ ~client_calls[j].requested

\* A stored lookup is repeated in the other mode, under another spelling of
\* the address.
C17_Witness ==
    \E i, j \in GeocodeCalls :
        /\ i < j
        /\ client_calls[i].normalized = client_calls[j].normalized
        /\ client_calls[i].address # client_calls[j].address
        /\ client_calls[i].stored
        /\ client_calls[i].offline # client_calls[j].offline
        /\ client_calls[j].value = client_calls[i].value

\* C18: the geocode cache is append-only: no operation on the client
\* removes a key of geocode_cache or changes the coordinates it maps to.
C18_CacheAppendOnly ==
    [][\A key \in DOMAIN geocode_cache :
          /\ key \in DOMAIN geocode_cache'
          /\ geocode_cache'[key] = geocode_cache[key]]_vars

\* An entry stored in online mode is still there, unchanged, after a plan
\* query that switched the client to offline mode.
C18_Witness ==
    \E i \in GeocodeCalls, j \in QueryCalls :
        /\ i < j
        /\ client_calls[i].stored
        /\ client_calls[i].requested
        /\ ~client_calls[j].offline
        /\ offline_mode
        /\ client_calls[i].normalized \in DOMAIN geocode_cache
        /\ geocode_cache[client_calls[i].normalized] = client_calls[i].value[1]

\* C19 as stated: when two threads are inside geocode_address with the same
\* address at once, both return the same coordinates, at most one of them
\* sends an HTTP request, and at most one of them writes the cache entry.
C19_Original ==
    \A i, j \in GeocodeCalls :
        /\ i < j
        /\ client_calls[i].thread # client_calls[j].thread
        /\ client_calls[i].normalized = client_calls[j].normalized
        /\ client_calls[j].began < i
        => /\ client_calls[i].value = client_calls[j].value
           /\ ~(client_calls[i].requested /\ client_calls[j].requested)
           /\ ~(client_calls[i].stored /\ client_calls[j].stored)

\* The first endpoint, in the order of graphql_endpoints, that answers 200
\* without 'errors'.
AnyPlan(answers) == \E i \in 1..Len(graphql_endpoints) : answers[graphql_endpoints[i]].kind = "ok"
FirstPlan(answers) ==
    LET i == CHOOSE i \in 1..Len(graphql_endpoints) :
                 /\ answers[graphql_endpoints[i]].kind = "ok"
                 /\ \A j \in 1..(i - 1) : answers[graphql_endpoints[j]].kind # "ok"
    IN answers[graphql_endpoints[i]].body

\* Call j left an online client in offline mode.
FellBack(j) ==
    /\ ~client_calls[j].offline
    /\ \/ client_calls[j].op = "query_otp_graphql" /\ ~AnyPlan(client_calls[j].answers)
       \/ client_calls[j].op = "get_stop_predictions" /\ client_calls[j].resp.kind = "exception"

C21_Original ==
    \A i \in QueryCalls :
        LET call == client_calls[i]
        IN /\ ~call.offline /\ ~AnyPlan(call.answers) => call.value = None
           /\ ~call.offline /\ call.value # None => ~call.value[1].offline

\* C21 as the code has it: a plan query never returns null; when no
\* endpoint could be reached it returns a synthesized itinerary with at
\* least one leg, and when one was reached it returns that endpoint's
\* response as it is, an empty itinerary list included.
C21_FailureGivesMock ==
    \A i \in QueryCalls :
        LET call == client_calls[i]
        IN /\ call.value # None
           /\ ~call.offline /\ ~AnyPlan(call.answers)
                 => call.value[1].offline /\ Len(call.value[1].body.legs) >= 1
           /\ ~call.offline /\ AnyPlan(call.answers)
                 => call.value = Some([offline |-> FALSE, body |-> FirstPlan(call.answers)])

\* One query was answered "no itinerary" and returned the empty list, and
\* a later one reached no endpoint and returned a synthesized itinerary.
C21_Witness ==
    \E i, j \in QueryCalls :
        /\ i < j
        /\ client_calls[i].value = Some([offline |-> FALSE, body |-> OtpPlan(<<>>)])
        /\ ~client_calls[j].offline
        /\ ~AnyPlan(client_calls[j].answers)
        /\ client_calls[j].value[1].offline
        /\ Len(client_calls[j].value[1].body.legs) >= 1

\* The lookup of call i was answered from the cache.
FromCache(i) ==
    \E j \in GeocodeCalls :
        /\ j < i
        /\ client_calls[j].stored
        /\ client_calls[j].normalized = client_calls[i].normalized

CompletedWithoutRequest ==
    LET call == client_calls'[Len(client_calls')]
    IN IF call.op = "query_otp_graphql" THEN call.posts = <<>> ELSE ~call.requested

\* C28: the switch to offline mode is one-way: while offline_mode is True
\* no method of the client sets it back to False (only its owner's
\* assignment does), and no call made meanwhile issues an HTTP request.
C28_OfflineIsOneWay ==
    [][offline_mode =>
          /\ ~offline_mode' => client_calls' = client_calls /\ ~mode_as_set'
          /\ client_calls' # client_calls => CompletedWithoutRequest
          /\ \A t \in Threads : frames'[t].pc = "waiting" => frames[t].pc = "waiting"]_vars

\* A query fell back to offline mode against the owner's setting, and a
\* geocode_address, a find_nearest_stop or a get_stop_predictions call made
\* after it sent no request.
C28_Witness ==
    \E i \in QueryCalls, j \in DOMAIN client_calls :
        /\ i < j
        /\ FellBack(i)
        /\ client_calls[j].op # "query_otp_graphql"
        /\ client_calls[j].offline
        /\ ~client_calls[j].requested
        /\ ~mode_as_set
        /\ offline_mode

\* C29: every query_otp_graphql call returns a response; it POSTs at most
\* once to the remembered endpoint and then to the configured paths in
\* list order, stopping at the first that works; what it records as
\* working_graphql_endpoint is a configured path that answered 200
\* without errors, a remembered endpoint that fails is cleared, and the
\* call re-enters itself only after every POST failed, ending offline.
Configured == {graphql_endpoints[k] : k \in 1..Len(graphql_endpoints)}

Remembered(call) == IF call.working_before # None THEN call.working_before ELSE <<>>

C29_QueryAlwaysAnswers ==
    /\ working_graphql_endpoint \in {None} \cup {Some(p) : p \in Configured}
    /\ \A i \in QueryCalls :
          LET call == client_calls[i]
          IN /\ call.value # None
             /\ call.offline => call.posts = <<>> /\ ~call.recursed
             /\ ~call.offline =>
                   \E k \in 0..Len(graphql_endpoints) :
                       call.posts = Remembered(call) \o SubSeq(graphql_endpoints, 1, k)
             /\ Len(call.posts) <= 1 + Len(graphql_endpoints)
             /\ \A k \in 1..(Len(call.posts) - 1) : call.answers[call.posts[k]].kind # "ok"
             /\ call.working_after # call.working_before =>
                   \/ call.working_after = None
                   \/ /\ call.working_after[1] \in Configured
                      /\ call.answers[call.working_after[1]].kind = "ok"
                      /\ call.working_after[1] = call.posts[Len(call.posts)]
             /\ (/\ ~call.offline /\ call.working_before # None
                 /\ call.answers[call.working_before[1]].kind # "ok")
                   => call.working_after # call.working_before
             /\ call.recursed =>
                   /\ call.value[1].offline
                   /\ call.working_after = None
                   /\ \A k \in 1..Len(call.posts) : call.answers[call.posts[k]].kind # "ok"
                   /\ Len(call.posts) >= Len(graphql_endpoints)

\* A call that remembered an endpoint, found it and every configured path
\* failing, and answered with the synthesized itinerary after five POSTs.
C29_Witness ==
    \E i \in QueryCalls :
        /\ client_calls[i].working_before # None
        /\ client_calls[i].recursed
        /\ Len(client_calls[i].posts) = 1 + Len(graphql_endpoints)
        /\ client_calls[i].working_after = None
        /\ client_calls[i].value # None

\* C24: _normalize_address turns a room code of letters and digits into an
\* address containing 'Kelburn Parade', and turns every non-empty address
\* into text containing 'Wellington' or 'New Zealand' unless the address
\* names a street, road, avenue or drive.
NamesAStreet(address) ==
    \E loc \in {"street", "road", "avenue", "drive"} : Contains(Lower(address), loc)

C24_Original ==
    \A i \in GeocodeCalls :
        LET call == client_calls[i]
        IN /\ vuw_code_pattern(call.address) # None
                => Contains(call.normalized, "Kelburn Parade")
           /\ (call.address # "" /\ ~NamesAStreet(call.address))
                => \/ Contains(call.normalized, "Wellington")
                   \/ Contains(call.normalized, "New Zealand")

(***************************************************************************)
(* Properties of Event                                                     *)
(***************************************************************************)
\* A text that is ISO-8601, and the instant it denotes: whether it carries
\* an offset, and its reading with the offset taken off.
ValidIso(text) == text # None /\ text[1].type = "str" /\ text[1].form \in {"datetime", "date"}

TextInstant(s) ==
    IF s.form = "date" \/ s.tz = "" THEN [aware |-> FALSE, at |-> s.local]
    ELSE IF s.tz = "+13:00" THEN [aware |-> TRUE, at |-> s.local - 13 * Hour]
    ELSE [aware |-> TRUE, at |-> s.local]

DatetimeInstant(dt) ==
    IF dt.utcoffset = None THEN [aware |-> FALSE, at |-> dt.local]
    ELSE [aware |-> TRUE, at |-> dt.local - dt.utcoffset[1]]

ParsedAsClaimed(time, text) ==
    IF ValidIso(text) THEN time # None /\ DatetimeInstant(time[1]) = TextInstant(text[1])
    ELSE time = None

\* C23: Event(d) never raises because of what d holds under start or end:
\* ISO-8601 text is parsed to the instant it denotes, and a missing,
\* empty, non-string or malformed value leaves start_time (end_time) None.
C23_Original ==
    (constructed # None /\ event_pc \in {"event", "raised"}) =>
        /\ constructed[1].raised = None
        /\ ParsedAsClaimed(constructed[1].start_time, TimeText(CurrentDict.start))
        /\ ParsedAsClaimed(constructed[1].end_time, TimeText(CurrentDict.end))

\* An entry that is a dict holding ISO date-time text under 'dateTime'.
ValidDateTimeEntry(entry) ==
    /\ entry # None
    /\ entry[1].type = "dict"
    /\ ValidIso(entry[1].dateTime)
    /\ entry[1].dateTime[1].form = "datetime"

SameInstant(entry_out, entry_in) ==
    /\ ValidDateTimeEntry(entry_out)
    /\ TextInstant(entry_out[1].dateTime[1]) = TextInstant(entry_in[1].dateTime[1])

RoundTripHolds ==
    /\ Len(dicts_out) >= 1 =>
          /\ dicts_out[1].summary = given_dict.summary
          /\ dicts_out[1].location = given_dict.location
          /\ SameInstant(dicts_out[1].start, given_dict.start)
          /\ SameInstant(dicts_out[1].end, given_dict.end)
    /\ Len(dicts_out) >= 2 => dicts_out[2] = dicts_out[1]

\* C25 as stated: for a dictionary with a non-empty summary, a location
\* and valid start and end dateTime strings, to_dict preserves summary,
\* location and both instants, and a second round trip changes nothing.
C25_Original ==
    (/\ Truthy(given_dict.summary)
     /\ given_dict.location # None
     /\ ValidDateTimeEntry(given_dict.start)
     /\ ValidDateTimeEntry(given_dict.end)) => RoundTripHolds

\* C25: the same for a dictionary whose location is not empty (to_dict
\* leaves an empty location out).
C25_RoundTripFixedPoint ==
    (/\ Truthy(given_dict.summary)
     /\ Truthy(given_dict.location)
     /\ ValidDateTimeEntry(given_dict.start)
     /\ ValidDateTimeEntry(given_dict.end)) => RoundTripHolds

\* Two round trips of a dictionary whose start text ends in 'Z': the text
\* written by to_dict differs from the text given, the instant does not.
C25_Witness ==
    /\ Len(dicts_out) = 2
    /\ Truthy(given_dict.summary)
    /\ Truthy(given_dict.location)
    /\ ValidDateTimeEntry(given_dict.start)
    /\ ValidDateTimeEntry(given_dict.end)
    /\ given_dict.start[1].dateTime[1].tz = "Z"
    /\ dicts_out[1].start[1].dateTime # given_dict.start[1].dateTime
    /\ dicts_out[2] = dicts_out[1]

(***************************************************************************)
(* Properties of the synthesized itinerary                                 *)
(***************************************************************************)
\* C26: the itinerary query_otp_graphql synthesizes offline for an
\* arrive-by request has legs with end >= start, each starting no earlier
\* than the one before it ends, the last ending no later than the
\* requested arrival, whatever the distance.
C26_Original ==
    (estimate # None /\ estimate[1].by = "api_client" /\ estimate[1].time # None) =>
        LET legs == estimate[1].route.legs
        IN /\ \A k \in 1..Len(legs) : legs[k].endTime >= legs[k].startTime
           /\ \A k \in 1..(Len(legs) - 1) : legs[k + 1].startTime >= legs[k].endTime
           /\ legs[Len(legs)].endTime <= estimate[1].time[1].t

(***************************************************************************)
(* Properties of the route's timing                                        *)
(***************************************************************************)
\* C27: in every route plan_route_between_events returns, on every timing
\* branch, predicted_departure <= estimated_arrival_time, their difference
\* is estimated_travel_time_minutes, and the arrival is not later than the
\* destination's start when it has one.
C27_Original ==
    HasRoute =>
        LET departure == TheRoute.predicted_departure[1].t
            arrival == TheRoute.estimated_arrival_time[1].t
        IN /\ departure <= arrival
           /\ arrival - departure = TheRoute.estimated_travel_time_minutes
           /\ event2[1].start_time # None => arrival <= event2[1].start_time[1]

====
